---- MODULE Spec2Model ----
(***************************************************************************)
(* Load-test client of the ChatBot SSE server (src/src/load_test/client.py) *)
(*                                                                         *)
(* TestMetrics, ChatBotLoadTester.send_single_request and                  *)
(* ChatBotLoadTester.run_ramp_up_test as a state machine.  Every coroutine *)
(* is cut at its await points: one action is the code a coroutine runs     *)
(* between two awaits, which asyncio executes without interleaving.        *)
(*                                                                         *)
(* Time is counted in whole units: of 1/max_concurrency second in a run    *)
(* with a ramp, so that the delay ramp_up_duration / max_concurrency is a  *)
(* whole number of units, and of one second in a run without.  A sleeper   *)
(* may resume at any time at or after its wake-up time; the clock stops at *)
(* the nominal end of the run, the events after it are ordered only.       *)
(*                                                                         *)
(* aiohttp is outside the repository: leaving the `async with` block of    *)
(* session.post is taken to neither suspend nor raise.  CancelledError is  *)
(* a BaseException (the source needs Python >= 3.10 for `str | None`).     *)
(***************************************************************************)
EXTENDS Integers, Sequences, FiniteSets, TLC

----------------------------------------------------------------------------
(* Bounds of the model *)

MaxConcurrency == 2     \* largest max_concurrency tried
MaxTime == 2            \* largest max_concurrency * nominal length (seconds)
MaxRampUp == 1          \* largest ramp_up_duration (seconds) tried
MaxLines == 1           \* lines per response body in a ramp run
MaxStreamLines == 3     \* lines per response body in the single-dispatch runs
MaxNumRequests == 3     \* largest num_requests of a fixed-load run
MaxPhases == 2          \* number of phases of test_phases that are run
MaxSamples == 2         \* largest number of resource samples recorded
MaxCalls == 3           \* largest number of add_response_time calls in a row
MaxErrors == 6          \* largest number of add_error calls in a phase
MaxHistory == 11        \* largest max_history_length of a manager
MaxAdds == 12           \* largest number of add_message calls on a manager
MaxStreams == 2         \* chat streams opened on the service

----------------------------------------------------------------------------
(* Values *)

None == "None"          \* a conversation_id that is None
NoTime == -1            \* a start_time / end_time that is None
Inf == 1000000          \* float("inf"), larger than every response time

Hello == <<"H", "i">>   \* a non-empty string
Empty == <<>>           \* the empty string ""

\* JSON values under the key "content": a string, a value that is not a
\* string (null, a number, a list), or no such key
Str(s) == [kind |-> "str", val |-> s]
NonStr == [kind |-> "nonstr", val |-> <<>>]
Absent == [kind |-> "absent", val |-> <<>>]
NoType == "absent"      \* the object has no key "type"

Min(a, b) == IF a < b THEN a ELSE b
Max(a, b) == IF a > b THEN a ELSE b

----------------------------------------------------------------------------
(* Lines of a response body, by what the parser looks at:                   *)
(*   utf8    the bytes decode as UTF-8                                      *)
(*   prefix  the stripped line starts with "data: "                         *)
(*   marker  the rest contains "data='"                                     *)
(*   closed  a "'" follows the marker                                       *)
(*   json    what json.loads makes of the text between the quotes:          *)
(*           "invalid" (JSONDecodeError), "scalar" (a value that is not an  *)
(*           object), "object"                                              *)
(*   type, content   the object's keys                                      *)

Line(u, p, m, c, j, t, k) ==
  [utf8 |-> u, prefix |-> p, marker |-> m, closed |-> c, json |-> j,
   type |-> t, content |-> k]

\* an empty line, or "event: message"
BlankLine == Line(TRUE, FALSE, FALSE, FALSE, "invalid", NoType, Absent)
\* bytes that are not UTF-8
Undecodable == Line(FALSE, FALSE, FALSE, FALSE, "invalid", NoType, Absent)
\* data: event='message' data='{"type": ...      (no closing quote)
Unterminated == Line(TRUE, TRUE, TRUE, FALSE, "invalid", NoType, Absent)
\* data: {"type": ..., "content": ...}
Compact(t, k) == Line(TRUE, TRUE, FALSE, FALSE, "object", t, k)
\* data: event='message' data='{"type": ..., "content": ...}'
Verbose(t, k) == Line(TRUE, TRUE, TRUE, TRUE, "object", t, k)
\* data: event='message' data='{"type": '
VerboseInvalid == Line(TRUE, TRUE, TRUE, TRUE, "invalid", NoType, Absent)
\* data: event='message' data='[1]'
VerboseScalar == Line(TRUE, TRUE, TRUE, TRUE, "scalar", NoType, Absent)

\* the lines a response body is made of in the single-dispatch runs
StreamLines ==
  {BlankLine, Undecodable, Unterminated, VerboseInvalid, VerboseScalar}
  \cup {Compact("connected", Absent), Compact("partial_response", Str(Hello)),
        Compact("complete", Str(Hello))}
  \cup {Verbose(NoType, Absent)}
  \cup {Verbose("partial_response", k) : k \in {Str(Hello), NonStr}}
  \cup {Verbose("complete", k) : k \in {Absent, Str(Empty), Str(Hello), NonStr}}
  \cup {Verbose("completed", k) : k \in {Str(Empty), Str(Hello)}}

\* the lines a response body is made of in a ramp run
RampLines ==
  {Verbose("complete", Str(Hello))}

Statuses == {200, 201, 404, 500}
Bodies == {"Server Error", ""}
RampStatuses == {200, 500}
RampBodies == {"Server Error"}
Message == "Test message for ramp-up test"

\* the pool run_ramp_up_test takes when it is given none
RampMessages == <<Message>>

\* the pool run_concurrent_test takes when it is given none
DefaultMessages ==
  <<"Hello, how are you?", "What can you help me with?",
    "Tell me about artificial intelligence", "How does machine learning work?",
    "What are the benefits of Python?",
    "Explain the concept of async programming",
    "What is the difference between FastAPI and Flask?",
    "How do you optimize web application performance?",
    "What are microservices?", "Explain the concept of serverless computing">>

\* the body of a complete response in a fixed-load run; the server may end
\* it early
FixedBody == <<Verbose("complete", Str(Hello))>>
FixedLines == {FixedBody[k] : k \in DOMAIN FixedBody}

\* the optional arguments a fixed-load run is called with: the defaults, or
\* a pool of two messages and multi_turn
FixedCalls ==
  {[messages |-> <<>>, multi_turn |-> FALSE],
   [messages |-> <<"A", "B">>, multi_turn |-> TRUE]}

\* str(request_id), for the request ids the bounds allow
DecimalStr(i) == <<"0", "1", "2", "3", "4", "5", "6", "7", "8", "9">>[i + 1]

\* exceptions: [type |-> class name, msg |-> str(e)]
Exc(t, m) == [type |-> t, msg |-> m]
TransportErrors ==
  {Exc("ClientConnectionError", <<"Connection closed">>),
   Exc("TimeoutError", <<>>)}
RampErrors == {Exc("ClientConnectionError", <<"Connection closed">>)}

----------------------------------------------------------------------------
(* TestMetrics *)

NewMetrics ==
  [total_requests |-> 0, successful_requests |-> 0, failed_requests |-> 0,
   total_response_time |-> 0, min_response_time |-> Inf,
   max_response_time |-> 0, response_times |-> <<>>, errors |-> <<>>,
   start_time |-> NoTime, end_time |-> NoTime]

add_response_time(m, response_time) ==
  [m EXCEPT !.response_times = Append(@, response_time),
            !.total_response_time = @ + response_time,
            !.min_response_time = Min(@, response_time),
            !.max_response_time = Max(@, response_time)]

\* (the "timestamp" of the record, time.time(), is left out)
add_error(m, error, request_data) ==
  [m EXCEPT !.failed_requests = @ + 1,
            !.errors = Append(@, [error |-> error.msg, type |-> error.type,
                                  request_data |-> request_data])]

----------------------------------------------------------------------------
(* State *)

VARIABLES
  now,               \* time.time() since the start, in time units
  run,               \* the entry point called: "ramp" or "fixed"
  max_concurrency,   \* arguments of run_ramp_up_test
  ramp_up_duration,
  duration,
  num_requests,      \* arguments of run_concurrent_test
  concurrency,
  multi_turn,
  messages,          \* argument of both; <<>> when none is given
  metrics,           \* self.metrics
  results,           \* run_ramp_up_test: results
  served,            \* what the server delivered to the request that
                     \* returned last
  start_time,        \* run_ramp_up_test: start_time
  mainpc,            \* where run_ramp_up_test stands
  mainwake,          \* wake-up time of the asyncio.sleep it awaits
  spawned,           \* number of worker tasks created (len(active_tasks))
  snapshot,          \* the "metrics" of the returned dict
  semaphore,         \* run_concurrent_test: the value of the semaphore
  done,              \* the queue of as_completed: the results of the
                     \* finished send_request tasks, oldest first
  conversation_ids,  \* run_concurrent_test: conversation_ids
  task,              \* the worker tasks, with the frame of send_single_request
  cpc,               \* where RampUpLoadTester.run_ramp_up_test stands
  phase,             \* its loop index i, counted from 1; 0 before the loop
  self_results,      \* RampUpLoadTester.results
  previous_result,   \* run_ramp_up_test: previous_result
  performance_limit_reached,
  warned,            \* what should_stop_test returned, phase by phase
  countdown,         \* seconds of rest still to sleep
  monitoring,        \* self._monitoring
  monitor_thread,    \* where the thread running monitor_system stands
  cpu_data,          \* system_monitor.cpu_data
  memory_data,       \* system_monitor.memory_data
  join_left,         \* seconds left of monitor_thread.join(timeout=2)
  pending,           \* an exception is on its way out of run_ramp_up_test
  report,            \* what generate_report made of self.results
  health_checks,     \* main: failed health checks so far
  exit_status,       \* exit status of the process running main
  conversations,     \* ConversationManager._conversations
  max_history_length,   \* ConversationManager._max_history_length
  total_messages,       \* ConversationManager._metrics["total_messages"]
  active_connections,   \* ConversationManager._active_connections
  streams            \* the stream_chat generators, each with its events

params == <<run, max_concurrency, ramp_up_duration, duration, num_requests,
            concurrency, multi_turn, messages>>
mainVars == <<start_time, mainpc, mainwake, spawned, snapshot>>
gate == <<semaphore, done, conversation_ids>>
sampler == <<monitoring, monitor_thread, cpu_data, memory_data>>
controller == <<cpc, phase, self_results, previous_result,
                performance_limit_reached, warned, countdown, join_left,
                pending, sampler, report>>
client == <<now, params, metrics, results, served, mainVars, gate, task>>
process == <<health_checks, exit_status>>
service == <<conversations, max_history_length, total_messages,
             active_connections, streams>>
apart == <<process, service>>
vars == <<client, controller, apart>>

Workers == 1..MaxConcurrency

\* the tasks of a run: the workers of a ramp run, the send_request(i) of a
\* fixed-load run (task t is send_request(t - 1))
Tasks == 1..Max(MaxConcurrency, MaxNumRequests)

\* `if not messages: messages = [...]`
Pool ==
  IF messages # <<>> THEN messages
  ELSE IF run = "fixed" THEN DefaultMessages ELSE RampMessages

\* {"message": message, "conversation_id": conversation_id}
RequestData(message, conversation_id) ==
  [message |-> message, conversation_id |-> conversation_id]

NoRequest == RequestData("", None)

\* status: 0 when no response head arrived; text: the body response.text()
\* returned; lines: the lines response.content yielded; broken: a transport
\* error ended it
Response(status, text, lines, broken) ==
  [status |-> status, text |-> text, lines |-> lines, broken |-> broken]

NoResponse == Response(0, "", <<>>, FALSE)

\* one second, in time units
Second == IF ramp_up_duration > 0 THEN max_concurrency ELSE 1

\* the nominal length of the run, in seconds: the ramp delays and the sustain
\* sleep of duration - ramp_up_duration, which is no sleep when negative
Length == Max(duration, ramp_up_duration)

\* the locals of send_single_request while it reads the stream
NoLocals ==
  [event_count |-> 0, last_message |-> Str(Empty), full_response |-> Empty,
   received_complete_event |-> FALSE]

\* pc: "absent"    no such task
\*     "created"   create_task(worker()) done, the coroutine has not run yet
\*     "post"      awaits session.post(...)
\*     "text"      awaits response.text()
\*     "stream"    awaits the next line of response.content
\*     "sleep"     awaits asyncio.sleep(1)
\*     "done"      worker() returned
\*     "cancelled" CancelledError went through worker()
\*     "failed"    an exception other than CancelledError went through
\*                 worker()
\*     "acquire"   (fixed-load run) waits for the semaphore
\* at: the pc at which the task was cancelled
\* request: the arguments of the send_single_request call under way
\* status, body: the response head and the lines received so far
NewTask ==
  [pc |-> "absent", wake |-> 0, start_time |-> 0, request |-> NoRequest,
   status |-> 0, body |-> <<>>, loc |-> NoLocals, must_cancel |-> FALSE,
   at |-> "absent"]

Awaiting == {"created", "acquire", "post", "text", "stream", "sleep"}
InFlight == {"post", "text", "stream"}

\* what a phase measured: success_rate in hundredths of a percent,
\* avg_response_time in time units, end_cpu_idle and end_memory_percent in
\* percent; the counters are those of a phase of ten thousand requests
Measured(success, avg, idle, memory) ==
  [success_rate |-> success, avg_response_time |-> avg,
   end_cpu_idle |-> idle, end_memory_percent |-> memory,
   total_requests |-> 100 * 100, failed_requests |-> 100 * 100 - success]

\* test_results of run_single_test_phase
TestResults(p, m) ==
  [concurrency |-> p.concurrency, duration |-> p.duration,
   success_rate |-> m.success_rate,
   avg_response_time |-> m.avg_response_time,
   end_cpu_idle |-> m.end_cpu_idle,
   end_memory_percent |-> m.end_memory_percent,
   total_requests |-> m.total_requests,
   failed_requests |-> m.failed_requests]

\* previous_result = None
NoResult == TestResults([concurrency |-> 0, duration |-> 0],
                        Measured(0, 0, 0, 0))

\* kind: "none"    generate_report has not been called
\*       "empty"   there were no results: nothing is written
\*       "raised"  _build_report_content raised ZeroDivisionError
\*       "built"   the report was written
\* knees: the phases listed as knees; overall_success_rate: in hundredths
\* of a percent; stable: the concurrency named as stable, 0 when the report
\* says that no phase was stable
Report(kind, knees, overall_success_rate, stable) ==
  [kind |-> kind, knees |-> knees,
   overall_success_rate |-> overall_success_rate, stable |-> stable]

NoReport == Report("none", {}, 0, 0)

\* RampUpLoadTester(): a tester that has not run
\* the process has no exit status yet
NoStatus == -1

\* main has not begun, and the chat service is not followed: its manager
\* is the ConversationManager() of the module, with no conversation
NothingApart ==
  /\ health_checks = 0
  /\ exit_status = NoStatus
  /\ conversations = <<>>
  /\ max_history_length = 10
  /\ total_messages = 0
  /\ active_connections = <<>>
  /\ streams = <<>>

NewController ==
  /\ cpc = "init"
  /\ phase = 0
  /\ self_results = <<>>
  /\ previous_result = NoResult
  /\ performance_limit_reached = FALSE
  /\ warned = <<>>
  /\ countdown = 0
  /\ join_left = 0
  /\ pending = FALSE
  /\ monitoring = FALSE
  /\ monitor_thread = "unstarted"
  /\ cpu_data = <<>>
  /\ memory_data = <<>>
  /\ report = NoReport
  /\ NothingApart

\* ChatBotLoadTester(): a ramp run is about to begin
Init ==
  /\ now = 0
  /\ run = "ramp"
  /\ max_concurrency \in 1..MaxConcurrency
  /\ ramp_up_duration \in 0..MaxRampUp
  /\ duration \in 1..MaxTime
  /\ Length * max_concurrency <= MaxTime
  /\ metrics = [NewMetrics EXCEPT !.start_time = 0]
  /\ results = <<>>
  /\ served = NoResponse
  /\ start_time = 0
  /\ mainpc = "spawn"
  /\ mainwake = 0
  /\ spawned = 0
  /\ snapshot = NewMetrics
  /\ num_requests = 0 /\ concurrency = 0 /\ multi_turn = FALSE
  /\ messages = <<>>
  /\ semaphore = 0
  /\ done = <<>>
  /\ conversation_ids = <<>>
  /\ task = [w \in Tasks |-> NewTask]
  /\ NewController

----------------------------------------------------------------------------
(* send_single_request: the stream parser *)

Raise(e) == [raised |-> TRUE, exc |-> e, loc |-> NoLocals]
Keep(l) == [raised |-> FALSE, exc |-> Exc("", <<>>), loc |-> l]

\* data.get("content", "")
GetContent(line) == IF line.content = Absent THEN Str(Empty) ELSE line.content

\* one iteration of `async for line in response.content`
ProcessLine(l, line) ==
  IF ~line.utf8 THEN Raise(Exc("UnicodeDecodeError", <<"invalid start byte">>))
  ELSE IF ~line.prefix THEN Keep(l)
  ELSE IF ~line.marker THEN Keep(l)
  ELSE IF ~line.closed THEN Keep(l)
  ELSE IF line.json = "invalid" THEN Keep(l)
  ELSE IF line.json = "scalar"
    THEN Raise(Exc("AttributeError", <<"object has no attribute 'get'">>))
  ELSE
    LET l1 == [l EXCEPT !.event_count = @ + 1]
        l2 == IF line.type = "complete"
                THEN [l1 EXCEPT !.last_message = GetContent(line),
                                !.received_complete_event = TRUE]
              ELSE IF line.type = "completed"
                THEN [l1 EXCEPT !.last_message = GetContent(line),
                                !.received_complete_event = TRUE]
              ELSE l1
    IN IF GetContent(line).kind # "str"
         THEN Raise(Exc("TypeError", <<"can only concatenate str">>))
         ELSE Keep([l2 EXCEPT !.full_response = @ \o GetContent(line).val])

\* the whole loop `async for line in response.content` over the lines of a
\* body, from the locals l; it stops at the first exception
RECURSIVE RunStream(_, _)
RunStream(l, lines) ==
  IF lines = <<>> THEN Keep(l)
  ELSE LET r == ProcessLine(l, Head(lines))
       IN IF r.raised THEN r ELSE RunStream(r.loc, Tail(lines))

\* `not last_message`
Falsy(c) == c.val = Empty

IncompleteError(event_count) ==
  Exc("Exception", <<"Incomplete SSE response", event_count>>)
\* (variant: the message leaves the body out)
HttpErrorNoBody(status, body) ==
  Exc("Exception", <<"HTTP", status, "...">>)

\* Exception(f"HTTP {response.status}: {await response.text()}")
HttpError(status, body) ==
  Exc("Exception", <<"HTTP", status, body>>)

\* the dict returned from the `except Exception` handler
ErrorOutcome(e, response_time, request) ==
  [success |-> FALSE, response_time |-> response_time, error |-> e.msg,
   conversation_id |-> request.conversation_id]

\* the dict returned when the stream did not complete
IncompleteOutcome(l, response_time, request) ==
  [success |-> FALSE, response_time |-> response_time,
   error |-> IncompleteError(l.event_count).msg,
   conversation_id |-> request.conversation_id,
   event_count |-> l.event_count]

SuccessOutcome(l, response_time, request) ==
  [success |-> TRUE, response_time |-> response_time,
   event_count |-> l.event_count,
   conversation_id |-> request.conversation_id,
   message_length |-> Len(l.full_response),
   last_message |-> l.last_message.val,
   received_complete_event |-> l.received_complete_event]

----------------------------------------------------------------------------
(* send_single_request: what it does to self.metrics *)

\* (variant: the request is not counted when it is sent)
CountRequestLate(m) == m

\* self.metrics.total_requests += 1, before the request is sent
CountRequest(m) == [m EXCEPT !.total_requests = @ + 1]

\* `if event_count == 0 or not last_message`
Incomplete(l) == l.event_count = 0 \/ Falsy(l.last_message)

\* (variant: the success branch forgets the response-time sample)
AtStreamEndNoSample(m, l, response_time, request) ==
  IF Incomplete(l)
    THEN add_error(m, IncompleteError(l.event_count), request)
    ELSE [m EXCEPT !.successful_requests = @ + 1]

\* the end of the stream: the incomplete branch or the success branch
AtStreamEnd(m, l, response_time, request) ==
  IF Incomplete(l)
    THEN add_error(m, IncompleteError(l.event_count), request)
    ELSE [add_response_time(m, response_time)
            EXCEPT !.successful_requests = @ + 1]

StreamOutcome(l, response_time, request) ==
  IF Incomplete(l) THEN IncompleteOutcome(l, response_time, request)
                   ELSE SuccessOutcome(l, response_time, request)

\* (variant: the handler counts the request a second time)
OnExceptionRecount(m, e, request) ==
  add_error([m EXCEPT !.total_requests = @ + 1], e, request)

\* `except Exception as e`
OnException(m, e, request) == add_error(m, e, request)

\* (variant: CancelledError is caught like an Exception, as before
\* Python 3.8)
OnCancelledCaught(m) ==
  add_error(m, Exc("CancelledError", <<>>), RequestData(Message, None))

\* CancelledError is not an Exception: the handler does not run
OnCancelled(m) == m

----------------------------------------------------------------------------
(* worker() of run_ramp_up_test, with send_single_request inlined *)

\* conversation_ids[request_id] = value
SetItem(dict, key, value) ==
  [k \in DOMAIN dict \cup {key} |-> IF k = key THEN value ELSE dict[k]]

\* what send_request(request_id) does to conversation_ids once it has the
\* result
NoteConversation(dict, request_id, result) ==
  IF result.success
    THEN IF result.conversation_id = None /\ multi_turn
           THEN SetItem(dict, request_id, DecimalStr(request_id))
           ELSE dict
    ELSE IF multi_turn THEN SetItem(dict, request_id, None) ELSE dict

\* (variant: a failed request leaves without releasing the semaphore)
ReturnHoldingSlot(w, outcome, response) ==
  /\ served' = response
  /\ conversation_ids' = NoteConversation(conversation_ids, w - 1, outcome)
  /\ semaphore' = IF outcome.success THEN semaphore + 1 ELSE semaphore
  /\ done' = Append(done, outcome)
  /\ task' = [task EXCEPT ![w] = [NewTask EXCEPT !.pc = "done"]]
  /\ UNCHANGED results

\* send_single_request returns `outcome`.  In a ramp run worker() appends it
\* to results and awaits asyncio.sleep(1).  In a fixed-load run
\* send_request notes the conversation, leaves `async with semaphore` and
\* returns; the finished task is queued for as_completed.
Return(w, outcome, response) ==
  /\ served' = response
  /\ IF run = "ramp"
       THEN /\ results' = Append(results, outcome)
            /\ task' = [task EXCEPT ![w] = [NewTask EXCEPT !.pc = "sleep",
                                                           !.wake = now + Second]]
            /\ UNCHANGED gate
       ELSE /\ conversation_ids' = NoteConversation(conversation_ids, w - 1,
                                                    outcome)
            /\ semaphore' = semaphore + 1
            /\ done' = Append(done, outcome)
            /\ task' = [task EXCEPT ![w] = [NewTask EXCEPT !.pc = "done"]]
            /\ UNCHANGED results

\* (variant: the handler catches asyncio.TimeoutError only)
HandleTimeoutOnly(w, e, response) ==
  IF e.type = "TimeoutError"
    THEN /\ metrics' = OnException(metrics, e, task[w].request)
         /\ Return(w, ErrorOutcome(e, now - task[w].start_time,
                                   task[w].request), response)
    ELSE /\ task' = [task EXCEPT ![w] = [NewTask EXCEPT !.pc = "failed"]]
         /\ UNCHANGED <<metrics, results, served, gate>>

\* the exception e reaches the handler of send_single_request
Handle(w, e, response) ==
  /\ metrics' = OnException(metrics, e, task[w].request)
  /\ Return(w, ErrorOutcome(e, now - task[w].start_time, task[w].request),
            response)

\* (variant: the loop goes round once more at the very end)
InTimeInclusive == now - start_time <= duration * Second

\* `while time.time() - start_time < duration`
InTime == now - start_time < duration * Second

\* The task runs for the first time, or asyncio.sleep(1) is over: the loop
\* condition is evaluated and either the next request is counted and sent,
\* or worker() returns.
WorkerLoop(w) ==
  /\ \/ task[w].pc = "created"
     \/ task[w].pc = "sleep" /\ now >= task[w].wake
  /\ ~task[w].must_cancel
  /\ IF InTime
       THEN /\ metrics' = CountRequest(metrics)
            /\ task' = [task EXCEPT ![w] =
                          [NewTask EXCEPT !.pc = "post", !.start_time = now,
                                          !.request =
                                            RequestData(Pool[1], None)]]
       ELSE /\ task' = [task EXCEPT ![w] = [NewTask EXCEPT !.pc = "done"]]
            /\ UNCHANGED metrics
  /\ UNCHANGED <<now, params, controller, apart, results, served, mainVars,
                 gate>>

\* session.post delivers the response head
PostResponds(w, status) ==
  /\ task[w].pc = "post"
  /\ ~task[w].must_cancel
  /\ task' = [task EXCEPT ![w].pc = IF status # 200 THEN "text" ELSE "stream",
                          ![w].status = status]
  /\ UNCHANGED <<now, params, controller, apart, metrics, results, served,
                 mainVars, gate>>

\* response.text() delivers the body of a response that is not 200
TextRead(w, body) ==
  /\ task[w].pc = "text"
  /\ ~task[w].must_cancel
  /\ Handle(w, HttpError(task[w].status, body),
            Response(task[w].status, body, task[w].body, FALSE))
  /\ UNCHANGED <<now, params, controller, apart, mainVars>>

\* one more line of the stream, of at most maxlen lines
ReadLine(w, line, maxlen) ==
  /\ task[w].pc = "stream"
  /\ ~task[w].must_cancel
  /\ Len(task[w].body) < maxlen
  /\ LET r == ProcessLine(task[w].loc, line)
     IN IF r.raised
          THEN Handle(w, r.exc,
                      Response(task[w].status, "", Append(task[w].body, line),
                               FALSE))
          ELSE /\ task' = [task EXCEPT ![w].loc = r.loc,
                                       ![w].body = Append(@, line)]
               /\ UNCHANGED <<metrics, results, served, gate>>
  /\ UNCHANGED <<now, params, controller, apart, mainVars>>

\* the stream ends
StreamEnd(w) ==
  /\ task[w].pc = "stream"
  /\ ~task[w].must_cancel
  /\ LET response_time == now - task[w].start_time
     IN /\ metrics' = AtStreamEnd(metrics, task[w].loc, response_time,
                                  task[w].request)
        /\ Return(w, StreamOutcome(task[w].loc, response_time,
                                   task[w].request),
                  Response(task[w].status, "", task[w].body, FALSE))
  /\ UNCHANGED <<now, params, controller, apart, mainVars>>

\* session.post, response.text() or the stream raises a transport error
TransportError(w, e) ==
  /\ task[w].pc \in InFlight
  /\ ~task[w].must_cancel
  /\ Handle(w, e, Response(task[w].status, "", task[w].body, TRUE))
  /\ UNCHANGED <<now, params, controller, apart, mainVars>>

\* the event loop throws CancelledError into a cancelled task at its await
Cancelled(w) ==
  /\ task[w].pc \in Awaiting
  /\ task[w].must_cancel
  /\ metrics' = OnCancelled(metrics)
  /\ task' = [task EXCEPT ![w] = [NewTask EXCEPT !.pc = "cancelled",
                                                 !.at = task[w].pc]]
  /\ UNCHANGED <<now, params, controller, apart, results, served, mainVars,
                 gate>>

----------------------------------------------------------------------------
(* run_ramp_up_test *)

CreateTask(t) == [t EXCEPT !.pc = "created"]

\* (variant: no task is cancelled)
CancelNone(t) == t

\* task.cancel(): a finished task is left alone
Cancel(t) == IF t.pc \in Awaiting THEN [t EXCEPT !.must_cancel = TRUE] ELSE t

\* (variant: the sleep is over at once)
SleepNoWait(d) == now

\* asyncio.sleep(d) with d <= 0 still yields once
SleepUntil(d) == now + Max(d, 0)

\* (variant: the loop goes round once too often)
WorkerCountOneMore == max_concurrency + 1

\* range(max_concurrency): the number of workers to create
WorkerCount == max_concurrency

\* One iteration of `for _i in range(max_concurrency)` up to its await; with
\* ramp_up_duration = 0 the loop has no await and creates every task at once.
Spawn ==
  /\ \/ mainpc = "spawn"
     \/ mainpc = "ramp" /\ now >= mainwake /\ spawned < WorkerCount
  /\ IF ramp_up_duration > 0
       THEN /\ task' = [task EXCEPT ![spawned + 1] = CreateTask(@)]
            /\ spawned' = spawned + 1
            /\ mainpc' = "ramp"
            /\ mainwake' = SleepUntil((ramp_up_duration * Second)
                                         \div max_concurrency)
       ELSE /\ task' = [w \in Tasks |->
                          IF w <= WorkerCount THEN CreateTask(task[w])
                                                  ELSE task[w]]
            /\ spawned' = WorkerCount
            /\ mainpc' = "sustain"
            /\ mainwake' = SleepUntil((duration - ramp_up_duration) * Second)
  /\ UNCHANGED <<now, params, controller, apart, metrics, results, served,
                 start_time, snapshot, gate>>

\* the last ramp delay is over: `await asyncio.sleep(duration - ramp_up_duration)`
Sustain ==
  /\ mainpc = "ramp" /\ now >= mainwake /\ spawned = WorkerCount
  /\ mainpc' = "sustain"
  /\ mainwake' = SleepUntil((duration - ramp_up_duration) * Second)
  /\ UNCHANGED <<now, params, controller, apart, metrics, results, served,
                 start_time, spawned, snapshot, gate, task>>

\* (variant: the run also waits for the requests under way)
SustainOverAndIdle ==
  /\ mainpc = "sustain" /\ now >= mainwake
  /\ \A w \in Workers : task[w].pc \notin InFlight

\* `await asyncio.sleep(duration - ramp_up_duration)` is over
SustainOver == mainpc = "sustain" /\ now >= mainwake

\* the sustain sleep is over: cancel every task, set end_time, return
CancelAll ==
  /\ SustainOver
  /\ task' = [w \in Tasks |-> Cancel(task[w])]
  /\ metrics' = [metrics EXCEPT !.end_time = now]
  /\ snapshot' = metrics'
  /\ mainpc' = "returned"
  /\ UNCHANGED <<now, params, controller, apart, results, served, start_time,
                 mainwake, spawned, gate>>

\* time passes
Tick ==
  /\ now < Length * Second
  /\ now' = now + 1
  /\ UNCHANGED <<params, controller, apart, metrics, results, served,
                 mainVars, gate, task>>

\* run_ramp_up_test is ready to run: it has not reached its first await, or
\* the sleep it awaits is over
MainDue ==
  \/ mainpc = "spawn"
  \/ mainpc \in {"ramp", "sustain"} /\ now >= mainwake

\* time passes while run_ramp_up_test sleeps
TickPrompt == ~MainDue /\ Tick

----------------------------------------------------------------------------
(* run_concurrent_test *)

\* (variant: the id noted for the request before is looked up)
GetOfPrevious(dict, key) ==
  IF key - 1 \in DOMAIN dict THEN dict[key - 1] ELSE None

\* conversation_ids.get(request_id)
Get(dict, key) == IF key \in DOMAIN dict THEN dict[key] ELSE None

\* (variant: round-robin in the order of admission)
MessageByAdmission(request_id) ==
  Pool[(metrics.total_requests % Len(Pool)) + 1]

\* messages[request_id % len(messages)]
MessageOf(request_id) == Pool[(request_id % Len(Pool)) + 1]

\* self.metrics.end_time = time.time(); return {"results": ..., "metrics": ...}
Finish(m) == [m EXCEPT !.end_time = now]

\* From the start to the first `await future`: the start time is set, the
\* semaphore is made, as_completed schedules one task per send_request(i).
\* With no request there is nothing to await and the run returns at once.
StartFixed ==
  /\ run = "fixed" /\ mainpc = "start"
  /\ semaphore' = concurrency
  /\ task' = [t \in Tasks |->
                IF t <= num_requests THEN CreateTask(task[t]) ELSE task[t]]
  /\ IF num_requests = 0
       THEN /\ metrics' = Finish([metrics EXCEPT !.start_time = now])
            /\ snapshot' = metrics'
            /\ mainpc' = "returned"
       ELSE /\ metrics' = [metrics EXCEPT !.start_time = now]
            /\ mainpc' = "collect"
            /\ UNCHANGED snapshot
  /\ UNCHANGED <<now, params, controller, apart, results, served, start_time,
                 mainwake, spawned, done, conversation_ids>>

\* (variant: the gate admits a request although no slot is free)
FreeSlotAlways == TRUE

\* Semaphore.acquire() does not wait
FreeSlot == semaphore > 0

\* send_request(t - 1) runs for the first time, or again after a release:
\* without a free slot it waits in Semaphore.acquire(); with one it takes
\* it, picks its message and its conversation id, and send_single_request
\* counts the request and sends it.
SendRequest(t) ==
  /\ run = "fixed"
  /\ \/ task[t].pc = "created"
     \/ task[t].pc = "acquire" /\ FreeSlot
  /\ ~task[t].must_cancel
  /\ IF FreeSlot
       THEN /\ semaphore' = semaphore - 1
            /\ metrics' = CountRequest(metrics)
            /\ task' = [task EXCEPT ![t] =
                          [NewTask EXCEPT
                             !.pc = "post", !.start_time = now,
                             !.request =
                               RequestData(MessageOf(t - 1),
                                           Get(conversation_ids, t - 1))]]
       ELSE /\ task' = [task EXCEPT ![t].pc = "acquire"]
            /\ UNCHANGED <<semaphore, metrics>>
  /\ UNCHANGED <<now, params, controller, apart, results, served, mainVars,
                 done, conversation_ids>>

\* (variant: the newest finished task is taken first)
CollectNewest ==
  /\ run = "fixed" /\ mainpc = "collect"
  /\ done # <<>>
  /\ results' = Append(results, done[Len(done)])
  /\ done' = SubSeq(done, 1, Len(done) - 1)
  /\ IF Len(results') = num_requests
       THEN /\ metrics' = Finish(metrics)
            /\ snapshot' = metrics'
            /\ mainpc' = "returned"
       ELSE UNCHANGED <<metrics, snapshot, mainpc>>
  /\ UNCHANGED <<now, params, controller, apart, served, start_time, mainwake,
                 spawned, semaphore, conversation_ids, task>>

\* `result = await future; results.append(result)`: the oldest finished task
\* is taken from the queue.  After the last one the loop is over and the
\* run returns.
Collect ==
  /\ run = "fixed" /\ mainpc = "collect"
  /\ done # <<>>
  /\ results' = Append(results, Head(done))
  /\ done' = Tail(done)
  /\ IF Len(results') = num_requests
       THEN /\ metrics' = Finish(metrics)
            /\ snapshot' = metrics'
            /\ mainpc' = "returned"
       ELSE UNCHANGED <<metrics, snapshot, mainpc>>
  /\ UNCHANGED <<now, params, controller, apart, served, start_time, mainwake,
                 spawned, semaphore, conversation_ids, task>>

----------------------------------------------------------------------------
(* TestMetrics.to_dict *)

\* (variant: a fraction of one instead of a percentage)
success_fraction(m) ==
  IF m.total_requests = 0 THEN 0
  ELSE (m.successful_requests * 100) \div m.total_requests

\* success_rate, in hundredths of a percent
success_rate(m) ==
  IF m.total_requests = 0 THEN 0
  ELSE (m.successful_requests * 10000) \div m.total_requests

RECURSIVE sum(_)
\* sum(self.response_times)
sum(xs) == IF xs = <<>> THEN 0 ELSE Head(xs) + sum(Tail(xs))

\* average_response_time, in hundredths of a time unit
average_response_time(m) ==
  IF m.response_times = <<>> THEN 0
  ELSE (sum(m.response_times) * 100) \div Len(m.response_times)

\* `not self.start_time`: None and 0.0 are both false
NotSet(t) == t = NoTime \/ t = 0

\* throughput, in hundredths of a request per time unit
throughput(m) ==
  IF NotSet(m.start_time) \/ NotSet(m.end_time) THEN 0
  ELSE IF m.end_time - m.start_time > 0
         THEN (m.total_requests * 100) \div (m.end_time - m.start_time)
         ELSE 0

\* the response times and the clock readings tried
ResponseTimes == {-1, 0, 1, 2}
ClockReadings == {NoTime, 0, 1, 2}

\* metrics.add_response_time(response_time), called from outside
AddResponseTime(response_time) ==
  /\ run = "metrics"
  /\ Len(metrics.response_times) < MaxCalls
  /\ metrics' = add_response_time(metrics, response_time)
  /\ UNCHANGED <<now, params, controller, apart, results, served, mainVars,
                 gate, task>>

----------------------------------------------------------------------------
(* RampUpLoadTester: the phase controller and its resource sampler *)

\* test_phases, by concurrency; every phase has duration 20
ConfiguredPhases == <<10, 20, 30, 40, 50, 75, 100, 150, 200>>

test_phases ==
  [k \in 1..Min(MaxPhases, Len(ConfiguredPhases)) |->
     [concurrency |-> ConfiguredPhases[k], duration |-> 20]]

\* the measurements tried: success rate, CPU idle and memory use on their
\* thresholds, one of them beyond its threshold, or all three; with each,
\* a response time that can be less than, equal to, or more than twice
\* another
Crossings ==
  {<<9500, 30, 90>>, <<9499, 30, 90>>, <<9500, 29, 90>>, <<9500, 30, 91>>,
   <<9499, 29, 91>>}

Measurements ==
  {Measured(c[1], avg, c[2], c[3]) : c \in Crossings, avg \in {1, 2, 3}}

\* (variant: a value at its threshold warns too)
should_stop_test_at_threshold(current_result, previous_result_) ==
  \/ current_result.end_cpu_idle <= 30
  \/ current_result.success_rate <= 95 * 100
  \/ /\ previous_result_ # NoResult
     /\ current_result.avg_response_time
          >= previous_result_.avg_response_time * 2
  \/ current_result.end_memory_percent >= 90

\* should_stop_test: TRUE when the list of warnings is not empty
should_stop_test(current_result, previous_result_) ==
  \/ current_result.end_cpu_idle < 30
  \/ current_result.success_rate < 95 * 100
  \/ /\ previous_result_ # NoResult
     /\ current_result.avg_response_time
          > previous_result_.avg_response_time * 2
  \/ current_result.end_memory_percent > 90

\* _build_report_content: the phases of performance_knees
performance_knees(rs) ==
  {k \in DOMAIN rs :
     \/ rs[k].success_rate < 95 * 100
     \/ rs[k].end_cpu_idle < 30
     \/ rs[k].end_memory_percent > 90}

\* test_results with the counters of the phase; success_rate is that of
\* the counters
Counted(p, total, failed, idle) ==
  [TestResults(p, Measured(success_rate(
                             [total_requests |-> total,
                              successful_requests |-> total - failed]),
                           1, idle, 90))
     EXCEPT !.total_requests = total, !.failed_requests = failed]

\* the counters tried, <<total_requests, failed_requests>>: no request, few
\* requests, and twenty with none, one (95 percent) and two failed
PhaseCounters ==
  {<<0, 0>>, <<1, 0>>, <<1, 1>>, <<20, 0>>, <<20, 1>>, <<20, 2>>}

\* the lists of phase results tried: one result for each of the first n
\* configured phases
ResultLists ==
  UNION {[1..n -> {Counted(test_phases[1], c[1], c[2], idle) :
                     c \in PhaseCounters, idle \in {29, 30}}] :
           n \in 0..Len(test_phases)}

\* the list with the concurrency of each phase set from test_phases
Configured(rs) ==
  [k \in DOMAIN rs |->
     [rs[k] EXCEPT !.concurrency = test_phases[k].concurrency]]

RECURSIVE SumOver(_, _)
\* sum(r[field] for r in self.results), for the two counters
SumOver(rs, field) ==
  IF rs = <<>> THEN 0
  ELSE (IF field = "total_requests" THEN Head(rs).total_requests
        ELSE Head(rs).failed_requests) + SumOver(Tail(rs), field)

\* stable_phases
stable_phases(rs) == {k \in DOMAIN rs : rs[k].success_rate >= 95 * 100}

\* max(stable_phases, key=concurrency)["concurrency"], 0 when the list is
\* empty and the report says so
max_stable_concurrency(rs) ==
  IF stable_phases(rs) = {} THEN 0
  ELSE LET k == CHOOSE i \in stable_phases(rs) :
                  \A j \in stable_phases(rs) :
                    rs[i].concurrency >= rs[j].concurrency
       IN  rs[k].concurrency

\* _build_report_content, as far as the knees, the overall success rate
\* and the stable ceiling: the division comes before the stable ceiling
build_report_content(rs) ==
  LET total_requests == SumOver(rs, "total_requests")
      total_errors == SumOver(rs, "failed_requests")
  IN  IF total_requests = 0
        THEN Report("raised", {}, 0, 0)
        ELSE Report("built", performance_knees(rs),
                    ((total_requests - total_errors) * 100 * 100)
                      \div total_requests,
                    max_stable_concurrency(rs))

\* generate_report: nothing when there are no results
generate_report(rs) ==
  IF rs = <<>> THEN Report("empty", {}, 0, 0) ELSE build_report_content(rs)

\* generate_report is called on the tester
GenerateReport ==
  /\ run = "report"
  /\ report = NoReport
  /\ report' = generate_report(self_results)
  /\ UNCHANGED <<client, apart, cpc, phase, self_results, previous_result,
                 performance_limit_reached, warned, countdown, join_left,
                 pending, sampler>>

\* a dispatch of the phase that fails: the request is counted, then
\* metrics.add_error(error, request_data)
AddError(error) ==
  /\ run = "errors"
  /\ self_results = <<>>
  /\ Len(metrics.errors) < MaxErrors
  /\ metrics' = add_error([metrics EXCEPT !.total_requests = @ + 1],
                        error, <<>>)
  /\ UNCHANGED <<now, params, controller, apart, results, served, mainVars,
                 gate, task>>

\* (variant: the last five are kept)
LastFive(errors) ==
  SubSeq(errors, Max(1, Len(errors) - 4), Len(errors))

\* metrics["errors"][:5] if metrics["errors"] else []
FirstFive(errors) == SubSeq(errors, 1, Min(5, Len(errors)))

\* test_results of run_single_test_phase, built from the metrics of the
\* phase, with its "errors"
BuildResult ==
  /\ run = "errors"
  /\ self_results = <<>>
  /\ self_results' =
       <<Counted(test_phases[1], metrics.total_requests,
                 metrics.failed_requests, 30)
           @@ [errors |-> FirstFive(metrics.errors)]>>
  /\ UNCHANGED <<client, apart, report, cpc, phase, previous_result,
                 performance_limit_reached, warned, countdown, join_left,
                 pending, sampler>>

\* (variant: the phases share one ChatBotLoadTester)
EnterPhaseShared ==
  /\ run = "own"
  /\ cpc = "loop"
  /\ phase < Len(test_phases)
  /\ phase' = phase + 1
  /\ cpc' = "phase"
  /\ UNCHANGED <<client, apart, report, self_results, previous_result,
                 performance_limit_reached, warned, countdown, join_left,
                 pending, sampler>>

\* run_single_test_phase is entered for the next phase:
\* `async with ChatBotLoadTester(self.base_url) as tester`, whose __init__
\* makes self.metrics = TestMetrics()
EnterPhase ==
  /\ run = "own"
  /\ cpc = "loop"
  /\ phase < Len(test_phases)
  /\ phase' = phase + 1
  /\ cpc' = "phase"
  /\ metrics' = NewMetrics
  /\ UNCHANGED <<now, params, results, served, mainVars, gate, task, apart>>
  /\ UNCHANGED <<report, self_results, previous_result,
                 performance_limit_reached, warned, countdown, join_left,
                 pending, sampler>>

\* one dispatch of the phase's tester, from its count to its verdict
DispatchOfPhase(ok) ==
  LET counted == [metrics EXCEPT !.total_requests = @ + 1]
  IN  /\ run = "own"
      /\ cpc = "phase"
      /\ metrics.total_requests < MaxCalls
      /\ metrics' =
           IF ok
             THEN add_response_time(
                    [counted EXCEPT !.successful_requests = @ + 1], 1)
             ELSE add_error(counted,
                            Exc("ClientConnectionError",
                                <<"Connection closed">>), <<>>)
      /\ UNCHANGED <<now, params, controller, apart, results, served,
                     mainVars, gate, task>>

\* the phase returns its test_results, which the loop appends
LeavePhase ==
  /\ run = "own"
  /\ cpc = "phase"
  /\ self_results' =
       Append(self_results,
              Counted(test_phases[phase], metrics.total_requests,
                      metrics.failed_requests, 30)
                @@ [successful_requests |-> metrics.successful_requests,
                    errors |-> FirstFive(metrics.errors)])
  /\ cpc' = "loop"
  /\ UNCHANGED <<client, apart, report, phase, previous_result,
                 performance_limit_reached, warned, countdown, join_left,
                 pending, sampler>>

\* main: one health check of the ten; the run begins after the first that
\* succeeds (the count is not read again), and main returns when the tenth
\* has failed
HealthCheck(ok) ==
  /\ run = "main"
  /\ cpc = "main"
  /\ IF ok
       THEN /\ health_checks' = 0
            /\ cpc' = "init"
            /\ UNCHANGED exit_status
       ELSE /\ health_checks' = health_checks + 1
            /\ IF health_checks + 1 = 10
                 THEN cpc' = "exited" /\ exit_status' = 0
                 ELSE UNCHANGED <<cpc, exit_status>>
  /\ UNCHANGED <<client, service, report, phase, self_results,
                 previous_result, performance_limit_reached, warned,
                 countdown, join_left, pending, sampler>>

\* main after run_ramp_up_test: save_results and generate_report, and
\* asyncio.run(main(args)) returns; an exception that leaves main ends the
\* process with status 1
ExitOfMain ==
  /\ run = "main"
  /\ cpc \in {"returned", "raised"}
  /\ report' = IF cpc = "raised" THEN report
               ELSE generate_report(self_results)
  /\ exit_status' = IF cpc = "raised" \/ report'.kind = "raised"
                      THEN 1 ELSE 0
  /\ cpc' = "exited"
  /\ UNCHANGED <<client, service, health_checks, phase, self_results,
                 previous_result, performance_limit_reached, warned,
                 countdown, join_left, pending, sampler>>

\* self._monitoring = True; monitor_thread.start(); the try block is
\* entered
StartMonitor ==
  /\ cpc = "init"
  /\ monitoring' = TRUE
  /\ monitor_thread' = "check"
  /\ previous_result' = NoResult
  /\ performance_limit_reached' = FALSE
  /\ cpc' = "loop"
  /\ UNCHANGED <<client, apart, report, phase, self_results, warned,
                 countdown, join_left, pending, cpu_data, memory_data>>

\* the for loop takes the next phase and awaits run_single_test_phase
BeginPhase ==
  /\ cpc = "loop"
  /\ phase < Len(test_phases)
  /\ phase' = phase + 1
  /\ cpc' = "phase"
  /\ UNCHANGED <<client, apart, report, self_results, previous_result,
                 performance_limit_reached, warned, countdown, join_left,
                 pending, sampler>>

\* (variant: a warning ends the loop)
PhaseReturnsStopping(m) ==
  LET result == TestResults(test_phases[phase], m)
      warning == should_stop_test(result, previous_result)
  IN  /\ cpc = "phase"
      /\ self_results' = Append(self_results, result)
      /\ warned' = Append(warned, warning)
      /\ performance_limit_reached' = (performance_limit_reached \/ warning)
      /\ IF phase = Len(test_phases) \/ warning
           THEN cpc' = "finally" /\ UNCHANGED countdown
           ELSE cpc' = "rest" /\ countdown' = 10
      /\ UNCHANGED <<client, apart, report, phase, previous_result, join_left,
                     pending, sampler>>

\* run_single_test_phase returns: the result is appended and judged; after
\* the last phase the loop is left, after any other the rest begins
PhaseReturns(m) ==
  LET result == TestResults(test_phases[phase], m)
      warning == should_stop_test(result, previous_result)
  IN  /\ cpc = "phase"
      /\ self_results' = Append(self_results, result)
      /\ warned' = Append(warned, warning)
      /\ performance_limit_reached' = (performance_limit_reached \/ warning)
      /\ IF phase = Len(test_phases)
           THEN cpc' = "finally" /\ UNCHANGED countdown
           ELSE cpc' = "rest" /\ countdown' = 10
      /\ UNCHANGED <<client, apart, report, phase, previous_result, join_left,
                     pending, sampler>>

\* one asyncio.sleep(1) of the rest returns; after the tenth,
\* previous_result = result and the loop goes on
Rest ==
  /\ cpc = "rest"
  /\ countdown' = countdown - 1
  /\ IF countdown = 1
       THEN cpc' = "loop" /\ previous_result' = self_results[phase]
       ELSE UNCHANGED <<cpc, previous_result>>
  /\ UNCHANGED <<client, apart, report, phase, self_results,
                 performance_limit_reached, warned, join_left, pending,
                 sampler>>

\* an exception leaves the await of the phase or of the rest
Raises ==
  /\ cpc \in {"phase", "rest"}
  /\ pending' = TRUE
  /\ cpc' = "finally"
  /\ UNCHANGED <<client, apart, report, phase, self_results, previous_result,
                 performance_limit_reached, warned, countdown, join_left,
                 sampler>>

\* (variant: the flag is reset after the loop, not in a finally clause)
FinallyUnlessRaised ==
  /\ cpc = "finally"
  /\ monitoring' = (monitoring /\ pending)
  /\ cpc' = "join"
  /\ join_left' = 2
  /\ UNCHANGED <<client, apart, report, phase, self_results, previous_result,
                 performance_limit_reached, warned, countdown, pending,
                 monitor_thread, cpu_data, memory_data>>

\* finally: self._monitoring = False, and join(timeout=2) is entered when
\* the thread is alive
Finally ==
  /\ cpc = "finally"
  /\ monitoring' = FALSE
  /\ cpc' = "join"
  /\ join_left' = 2
  /\ UNCHANGED <<client, apart, report, phase, self_results, previous_result,
                 performance_limit_reached, warned, countdown, pending,
                 monitor_thread, cpu_data, memory_data>>

\* a second of the join passes with the thread alive
JoinWaits ==
  /\ cpc = "join"
  /\ monitor_thread # "exited"
  /\ join_left > 0
  /\ join_left' = join_left - 1
  /\ UNCHANGED <<client, apart, report, cpc, phase, self_results,
                 previous_result, performance_limit_reached, warned,
                 countdown, pending, sampler>>

\* (variant: join() without a timeout)
JoinForever == monitor_thread = "exited"

\* the thread is not alive, or the timeout of the join has run out
JoinOver == monitor_thread = "exited" \/ join_left = 0

\* the finally clause is done: `return self.results`, or the exception
\* goes on to the caller
Leave ==
  /\ cpc = "join"
  /\ JoinOver
  /\ cpc' = IF pending THEN "raised" ELSE "returned"
  /\ UNCHANGED <<client, apart, report, phase, self_results, previous_result,
                 performance_limit_reached, warned, countdown, join_left,
                 pending, sampler, report>>

\* SystemMonitor.get_system_stats: it reads and retains nothing. The
\* readings are left out; the timestamp, time.time() - self.start_time, is
\* the second of the sampler's cadence, a record being made every second
get_system_stats == [timestamp |-> Len(cpu_data)]

\* (variant: record_stats appends to cpu_data only)
MonitorRecordsCpu ==
  /\ monitor_thread = "check"
  /\ monitoring
  /\ Len(cpu_data) < MaxSamples
  /\ cpu_data' = Append(cpu_data, get_system_stats)
  /\ monitor_thread' = "sleep"
  /\ UNCHANGED <<client, apart, report, cpc, phase, self_results,
                 previous_result, performance_limit_reached, warned,
                 countdown, join_left, pending, monitoring, memory_data>>

\* monitor_system: the loop condition holds, record_stats() appends a
\* sample and time.sleep(1) begins
MonitorRecords ==
  /\ monitor_thread = "check"
  /\ monitoring
  /\ Len(cpu_data) < MaxSamples
  /\ LET stats == get_system_stats
     IN  /\ cpu_data' = Append(cpu_data, stats)
         /\ memory_data' = Append(memory_data, stats)
  /\ monitor_thread' = "sleep"
  /\ UNCHANGED <<client, apart, report, cpc, phase, self_results,
                 previous_result, performance_limit_reached, warned,
                 countdown, join_left, pending, monitoring>>

\* monitor_system: time.sleep(1) returns
MonitorWakes ==
  /\ monitor_thread = "sleep"
  /\ monitor_thread' = "check"
  /\ UNCHANGED <<client, apart, report, cpc, phase, self_results,
                 previous_result, performance_limit_reached, warned,
                 countdown, join_left, pending, monitoring, cpu_data,
                 memory_data>>

\* monitor_system: the loop condition fails and the thread ends
MonitorExits ==
  /\ monitor_thread = "check"
  /\ ~monitoring
  /\ monitor_thread' = "exited"
  /\ UNCHANGED <<client, apart, report, cpc, phase, self_results,
                 previous_result, performance_limit_reached, warned,
                 countdown, join_left, pending, monitoring, cpu_data,
                 memory_data>>

----------------------------------------------------------------------------
(* ConversationManager *)

\* xs[start:] of Python, for a start of either sign
SliceFrom(xs, start) ==
  LET begin == IF start < 0 THEN Max(0, Len(xs) + start)
               ELSE Min(start, Len(xs))
  IN  SubSeq(xs, begin + 1, Len(xs))

\* Conversation(): an id of its own (its place in _conversations), no
\* message, and max_history_length = 10
Conversation == [messages |-> <<>>, max_history_length |-> 10]

\* Conversation.add_message
append_message(conversation, message) ==
  LET appended == Append(conversation.messages, message)
  IN  [conversation EXCEPT !.messages =
         IF Len(appended) > conversation.max_history_length
           THEN SliceFrom(appended, -conversation.max_history_length)
           ELSE appended]

\* ConversationManager.add_message, as to _conversations: nothing for an
\* unknown id; the history is cut with messages[-limit + 1:] when it has
\* limit messages or more, and the message is appended
add_message(convs, limit, conversation_id, message) ==
  IF conversation_id \notin DOMAIN convs THEN convs
  ELSE LET conversation == convs[conversation_id]
           cut == IF Len(conversation.messages) >= limit
                    THEN SliceFrom(conversation.messages, -limit + 1)
                    ELSE conversation.messages
       IN  [convs EXCEPT ![conversation_id] =
              append_message([conversation EXCEPT !.messages = cut],
                             message)]

\* the ids asked for: that of the one conversation created, and one that
\* no conversation has
ConversationIds == {1, 2}

\* manager.create_conversation()
CreateConversation ==
  /\ run = "history"
  /\ conversations = <<>>
  /\ conversations' = Append(conversations, Conversation)
  /\ UNCHANGED <<client, controller, process, max_history_length,
                 total_messages, active_connections, streams>>

\* manager.add_message(conversation_id, message); the message is known by
\* its number among those added
AddMessage(conversation_id) ==
  /\ run = "history"
  /\ total_messages < MaxAdds
  /\ conversations' = add_message(conversations, max_history_length,
                                  conversation_id, total_messages + 1)
  /\ total_messages' = IF conversation_id \in DOMAIN conversations
                         THEN total_messages + 1 ELSE total_messages
  /\ UNCHANGED <<client, controller, process, max_history_length,
                 active_connections, streams>>

\* (variant: the entry is kept when its count reaches zero)
unregister_connection_keeping(connections, conversation_id) ==
  IF conversation_id \notin DOMAIN connections THEN connections
  ELSE [connections EXCEPT ![conversation_id] = @ - 1]

\* ConversationManager.register_connection, on the defaultdict(int)
register_connection(connections, conversation_id) ==
  IF conversation_id \in DOMAIN connections
    THEN [connections EXCEPT ![conversation_id] = @ + 1]
    ELSE [c \in DOMAIN connections \cup {conversation_id} |->
            IF c = conversation_id THEN 1 ELSE connections[c]]

\* ConversationManager.unregister_connection
unregister_connection(connections, conversation_id) ==
  IF conversation_id \notin DOMAIN connections THEN connections
  ELSE IF connections[conversation_id] - 1 <= 0
         THEN [c \in DOMAIN connections \ {conversation_id} |->
                 connections[c]]
         ELSE [connections EXCEPT ![conversation_id] = @ - 1]

----------------------------------------------------------------------------
(* ChatBot.stream_chat *)

\* the calls of stream_chat, in their order
Streams == 1..MaxStreams

\* request.conversation_id = None
NoConversation == 0

\* a generator of stream_chat, by the yield it is suspended at:
\*   pc            "idle" (not called yet), "connected", "message",
\*                 "completed", "error", "closed" (the finally clause is
\*                 done)
\*   request       request.conversation_id
\*   conversation  the local variable: NoConversation when it is None or
\*                 was never assigned
\*   events        the SSEEvents yielded so far
\*   chunks        the chunks generate_response has yielded
NewStream ==
  [pc |-> "idle", request |-> NoConversation,
   conversation |-> NoConversation, events |-> <<>>, chunks |-> 0]

\* an SSEEvent, by its event name and, for a message, the type and the
\* content of its frame
SSEEvent(event, type, content) ==
  [event |-> event, type |-> type, content |-> content]

\* the responses of generate_response; the first carries the user's message
responses == <<"echo", "thinking", "example", "chunked", "thanks">>

\* the k-th chunk of generate_response: the five partial responses, then
\* the complete frame with the last response
response_chunk(k) ==
  IF k <= Len(responses)
    THEN SSEEvent("message", "partial_response", responses[k])
    ELSE SSEEvent("message", "complete", responses[Len(responses)])

ErrorEvent == SSEEvent("error", "stream_error", "")

\* (variant: the connected event is yielded before the conversation is
\* looked up)
Refused(stream) ==
  [stream EXCEPT !.pc = "error",
                 !.events = <<SSEEvent("connected", "", ""), ErrorEvent>>]

\* stream_chat is left by an exception before a conversation is
\* registered: the except clause yields the error event
Refuse(stream) ==
  [stream EXCEPT !.pc = "error", !.events = Append(@, ErrorEvent)]

\* stream_chat is called, for the s-th time, and runs to its first yield
\* (the streams are numbered in the order of their calls). The conversation
\* is looked up, or created when the request names none (created tells whether
\* create_conversation returned or raised); it is registered, the user's
\* message (known by its role) is added and the connected event yielded. An unknown id raises
\* HTTPException, and the error event is yielded instead.
OpenStream(s, conversation_id, created) ==
  LET known == conversation_id \in DOMAIN conversations
      conversation == IF conversation_id = NoConversation
                        THEN Len(conversations) + 1
                        ELSE conversation_id
      convs == IF conversation_id = NoConversation
                 THEN Append(conversations, Conversation)
                 ELSE conversations
  IN  /\ run = "service"
      /\ streams[s].pc = "idle"
      /\ \A r \in 1..(s - 1) : streams[r].pc # "idle"
      /\ IF (conversation_id = NoConversation /\ ~created)
            \/ (conversation_id # NoConversation /\ ~known)
           THEN /\ streams' =
                     [streams EXCEPT ![s] =
                        Refuse([@ EXCEPT !.request = conversation_id])]
                /\ UNCHANGED <<conversations, total_messages,
                               active_connections>>
           ELSE /\ active_connections' =
                     register_connection(active_connections, conversation)
                /\ conversations' =
                     add_message(convs, max_history_length, conversation,
                                 "user")
                /\ total_messages' = total_messages + 1
                /\ streams' =
                     [streams EXCEPT ![s] =
                        [@ EXCEPT !.pc = "connected",
                                  !.request = conversation_id,
                                  !.conversation = conversation,
                                  !.events =
                                    <<SSEEvent("connected", "", "")>>]]
      /\ UNCHANGED <<client, controller, process, max_history_length>>

\* the consumer asks for the next event and generate_response yields its
\* next chunk
NextChunk(s) ==
  /\ run = "service"
  /\ streams[s].pc \in {"connected", "message"}
  /\ streams[s].chunks <= Len(responses)
  /\ streams' =
       [streams EXCEPT ![s] =
          [@ EXCEPT !.pc = "message",
                    !.chunks = @ + 1,
                    !.events = Append(@, response_chunk(streams[s].chunks
                                                          + 1))]]
  /\ UNCHANGED <<client, controller, process, conversations,
                 max_history_length, total_messages, active_connections>>

\* generate_response is exhausted: the assistant's message is made of the
\* last chunk and added, and the completed event is yielded
Complete(s) ==
  /\ run = "service"
  /\ streams[s].pc = "message"
  /\ streams[s].chunks = Len(responses) + 1
  /\ conversations' =
       add_message(conversations, max_history_length,
                   streams[s].conversation, "assistant")
  /\ total_messages' = total_messages + 1
  /\ streams' =
       [streams EXCEPT ![s] =
          [@ EXCEPT !.pc = "completed",
                    !.events = Append(@, SSEEvent("completed", "", ""))]]
  /\ UNCHANGED <<client, controller, process, max_history_length,
                 active_connections>>

\* an exception is raised while the response is streamed: the except
\* clause yields the error event
StreamRaises(s) ==
  /\ run = "service"
  /\ streams[s].pc \in {"connected", "message"}
  /\ streams' =
       [streams EXCEPT ![s] =
          [@ EXCEPT !.pc = "error", !.events = Append(@, ErrorEvent)]]
  /\ UNCHANGED <<client, controller, process, conversations,
                 max_history_length, total_messages, active_connections>>

\* the generator is resumed after its last event, or closed by the
\* consumer at any yield: the finally clause unregisters the conversation
\* when there is one
CloseStream(s) ==
  /\ run = "service"
  /\ streams[s].pc \in {"connected", "message", "completed", "error"}
  /\ active_connections' =
       IF streams[s].conversation # NoConversation
         THEN unregister_connection(active_connections,
                                    streams[s].conversation)
         ELSE active_connections
  /\ streams' = [streams EXCEPT ![s] = [@ EXCEPT !.pc = "closed"]]
  /\ UNCHANGED <<client, controller, process, conversations,
                 max_history_length, total_messages>>

----------------------------------------------------------------------------
(* Specifications *)

\* a ramp run
Next ==
  \/ Spawn
  \/ Sustain
  \/ CancelAll
  \/ Tick
  \/ \E w \in Workers : WorkerLoop(w)
  \/ \E w \in Workers, status \in RampStatuses : PostResponds(w, status)
  \/ \E w \in Workers, body \in RampBodies : TextRead(w, body)
  \/ \E w \in Workers, line \in RampLines : ReadLine(w, line, MaxLines)
  \/ \E w \in Workers : StreamEnd(w)
  \/ \E w \in Workers, e \in RampErrors : TransportError(w, e)
  \/ \E w \in Workers : Cancelled(w)

Spec == Init /\ [][Next]_vars

\* the steps of run_ramp_up_test itself, and the clock
MainNext ==
  \/ Spawn
  \/ Sustain
  \/ CancelAll
  \/ TickPrompt

\* the steps of the workers; a request is answered, broken off, or neither
WorkerNext ==
  \/ \E w \in Workers : WorkerLoop(w)
  \/ \E w \in Workers : PostResponds(w, 200)
  \/ \E w \in Workers, line \in RampLines : ReadLine(w, line, MaxLines)
  \/ \E w \in Workers : StreamEnd(w)
  \/ \E w \in Workers, e \in RampErrors : TransportError(w, e)
  \/ \E w \in Workers : Cancelled(w)

NextPrompt == MainNext \/ WorkerNext

\* A ramp run on an event loop that is never late for run_ramp_up_test:
\* the coroutine runs as soon as its sleep is over, and time passes while
\* it sleeps.  Nothing is assumed of the workers and of the server: a
\* request may stay unanswered for ever.
FairRamp ==
  /\ Init
  /\ [][NextPrompt]_vars
  /\ WF_vars(MainNext)

\* one worker sends one request and reads its response to the end, over
\* every response; the clock stands still, so the run is not cancelled
InitStream ==
  /\ Init
  /\ max_concurrency = 1
  /\ ramp_up_duration = 0
  /\ duration = 1

NextStream ==
  \/ Spawn
  \/ \E w \in Workers : WorkerLoop(w)
  \/ \E w \in Workers, status \in Statuses : PostResponds(w, status)
  \/ \E w \in Workers, body \in Bodies : TextRead(w, body)
  \/ \E w \in Workers, line \in StreamLines : ReadLine(w, line, MaxStreamLines)
  \/ \E w \in Workers : StreamEnd(w)
  \/ \E w \in Workers, e \in TransportErrors : TransportError(w, e)

SpecStream == InitStream /\ [][NextStream]_vars

\* a fixed-load run on a fresh tester; the clock stands still
InitFixed ==
  /\ now = 0
  /\ run = "fixed"
  /\ num_requests \in 0..MaxNumRequests
  /\ concurrency \in 0..MaxConcurrency
  /\ \E call \in FixedCalls :
       messages = call.messages /\ multi_turn = call.multi_turn
  /\ max_concurrency = 0 /\ ramp_up_duration = 0 /\ duration = 0
  /\ metrics = NewMetrics
  /\ results = <<>>
  /\ served = NoResponse
  /\ start_time = 0
  /\ mainpc = "start"
  /\ mainwake = 0
  /\ spawned = 0
  /\ snapshot = NewMetrics
  /\ semaphore = 0
  /\ done = <<>>
  /\ conversation_ids = <<>>
  /\ task = [t \in Tasks |-> NewTask]
  /\ NewController

NextFixed ==
  \/ StartFixed
  \/ Collect
  \/ \E t \in Tasks : SendRequest(t)
  \/ \E t \in Tasks : PostResponds(t, 200)
  \/ \E t \in Tasks, line \in FixedLines : ReadLine(t, line, Len(FixedBody))
  \/ \E t \in Tasks : StreamEnd(t)
  \/ \E t \in Tasks, e \in RampErrors : TransportError(t, e)

SpecFixed == InitFixed /\ [][NextFixed]_vars

\* a fixed-load run called with the default messages and multi_turn
InitDefaults ==
  /\ InitFixed
  /\ messages = <<>>
  /\ multi_turn = FALSE

\* The event loop runs a coroutine that is ready, and a request under way
\* is answered or broken off in the end: while a step is possible, one is
\* taken.  No step of a fixed-load run can be repeated for ever, so this is
\* enough for every request to return.
FairFixed ==
  /\ InitDefaults
  /\ [][NextFixed]_vars
  /\ WF_vars(NextFixed)

\* a TestMetrics of its own, as the unit tests use it: start_time, end_time
\* and total_requests are assigned, then response times are added
InitMetrics ==
  /\ now = 0
  /\ run = "metrics"
  /\ max_concurrency = 0 /\ ramp_up_duration = 0 /\ duration = 0
  /\ num_requests = 0 /\ concurrency = 0 /\ multi_turn = FALSE
  /\ messages = <<>>
  /\ \E s \in ClockReadings, e \in ClockReadings, n \in 0..2 :
       metrics = [NewMetrics EXCEPT !.start_time = s, !.end_time = e,
                                    !.total_requests = n]
  /\ results = <<>>
  /\ served = NoResponse
  /\ start_time = 0
  /\ mainpc = "none"
  /\ mainwake = 0
  /\ spawned = 0
  /\ snapshot = NewMetrics
  /\ semaphore = 0
  /\ done = <<>>
  /\ conversation_ids = <<>>
  /\ task = [t \in Tasks |-> NewTask]
  /\ NewController

NextMetrics == \E x \in ResponseTimes : AddResponseTime(x)

SpecMetrics == InitMetrics /\ [][NextMetrics]_vars

\* the client's variables when no run is under way, on a fresh TestMetrics
AtRest(r) ==
  /\ now = 0
  /\ run = r
  /\ max_concurrency = 0 /\ ramp_up_duration = 0 /\ duration = 0
  /\ num_requests = 0 /\ concurrency = 0 /\ multi_turn = FALSE
  /\ messages = <<>>
  /\ metrics = NewMetrics
  /\ results = <<>>
  /\ served = NoResponse
  /\ start_time = 0
  /\ mainpc = "none"
  /\ mainwake = 0
  /\ spawned = 0
  /\ snapshot = NewMetrics
  /\ semaphore = 0
  /\ done = <<>>
  /\ conversation_ids = <<>>
  /\ task = [t \in Tasks |-> NewTask]

\* the metrics of one phase, in which every request fails, and the result
\* that run_single_test_phase builds of them
InitErrors == AtRest("errors") /\ NewController

NextErrors ==
  \/ \E e \in TransportErrors : AddError(e)
  \/ BuildResult

SpecErrors == InitErrors /\ [][NextErrors]_vars

\* the phases of a run with the dispatches of each; the resource sampler
\* and the rests between the phases are left out
InitOwn ==
  /\ AtRest("own")
  /\ cpc = "loop"
  /\ phase = 0
  /\ self_results = <<>>
  /\ previous_result = NoResult
  /\ performance_limit_reached = FALSE
  /\ warned = <<>>
  /\ countdown = 0
  /\ join_left = 0
  /\ pending = FALSE
  /\ monitoring = FALSE
  /\ monitor_thread = "unstarted"
  /\ cpu_data = <<>>
  /\ memory_data = <<>>
  /\ report = NoReport
  /\ NothingApart

NextOwn ==
  \/ EnterPhase
  \/ \E ok \in BOOLEAN : DispatchOfPhase(ok)
  \/ LeavePhase

SpecOwn == InitOwn /\ [][NextOwn]_vars

\* generate_report on a tester that holds any list of phase results
InitReport ==
  /\ now = 0
  /\ run = "report"
  /\ max_concurrency = 0 /\ ramp_up_duration = 0 /\ duration = 0
  /\ num_requests = 0 /\ concurrency = 0 /\ multi_turn = FALSE
  /\ messages = <<>>
  /\ metrics = NewMetrics
  /\ results = <<>>
  /\ served = NoResponse
  /\ start_time = 0
  /\ mainpc = "none"
  /\ mainwake = 0
  /\ spawned = 0
  /\ snapshot = NewMetrics
  /\ semaphore = 0
  /\ done = <<>>
  /\ conversation_ids = <<>>
  /\ task = [t \in Tasks |-> NewTask]
  /\ cpc = "returned"
  /\ \E rs \in ResultLists :
       /\ self_results = Configured(rs)
       /\ phase = Len(rs)
       /\ warned = [k \in DOMAIN rs |-> FALSE]
  /\ previous_result = NoResult
  /\ performance_limit_reached = FALSE
  /\ countdown = 0
  /\ join_left = 0
  /\ pending = FALSE
  /\ monitoring = FALSE
  /\ monitor_thread = "exited"
  /\ cpu_data = <<>>
  /\ memory_data = <<>>
  /\ report = NoReport
  /\ NothingApart

NextReport == GenerateReport

SpecReport == InitReport /\ [][NextReport]_vars

\* a ConversationManager(max_history_length) of its own, as the unit tests
\* make it
InitHistory ==
  /\ AtRest("history")
  /\ cpc = "init"
  /\ phase = 0
  /\ self_results = <<>>
  /\ previous_result = NoResult
  /\ performance_limit_reached = FALSE
  /\ warned = <<>>
  /\ countdown = 0
  /\ join_left = 0
  /\ pending = FALSE
  /\ monitoring = FALSE
  /\ monitor_thread = "unstarted"
  /\ cpu_data = <<>>
  /\ memory_data = <<>>
  /\ report = NoReport
  /\ health_checks = 0
  /\ exit_status = NoStatus
  /\ conversations = <<>>
  /\ max_history_length \in 1..MaxHistory
  /\ total_messages = 0
  /\ active_connections = <<>>
  /\ streams = <<>>

NextHistory ==
  \/ CreateConversation
  \/ \E c \in ConversationIds : AddMessage(c)

SpecHistory == InitHistory /\ [][NextHistory]_vars

\* the chat service with its ConversationManager() and no stream yet
InitService ==
  /\ AtRest("service")
  /\ cpc = "init"
  /\ phase = 0
  /\ self_results = <<>>
  /\ previous_result = NoResult
  /\ performance_limit_reached = FALSE
  /\ warned = <<>>
  /\ countdown = 0
  /\ join_left = 0
  /\ pending = FALSE
  /\ monitoring = FALSE
  /\ monitor_thread = "unstarted"
  /\ cpu_data = <<>>
  /\ memory_data = <<>>
  /\ report = NoReport
  /\ health_checks = 0
  /\ exit_status = NoStatus
  /\ conversations = <<>>
  /\ max_history_length = 10
  /\ total_messages = 0
  /\ active_connections = <<>>
  /\ streams = [s \in Streams |-> NewStream]

NextService ==
  \/ \E s \in Streams, c \in {NoConversation} \cup ConversationIds,
        created \in BOOLEAN :
       OpenStream(s, c, created)
  \/ \E s \in Streams : NextChunk(s)
  \/ \E s \in Streams : Complete(s)
  \/ \E s \in Streams : StreamRaises(s)
  \/ \E s \in Streams : CloseStream(s)

SpecService == InitService /\ [][NextService]_vars

\* the process that runs main of the phase controller
InitMain ==
  /\ AtRest("main")
  /\ cpc = "main"
  /\ phase = 0
  /\ self_results = <<>>
  /\ previous_result = NoResult
  /\ performance_limit_reached = FALSE
  /\ warned = <<>>
  /\ countdown = 0
  /\ join_left = 0
  /\ pending = FALSE
  /\ monitoring = FALSE
  /\ monitor_thread = "unstarted"
  /\ cpu_data = <<>>
  /\ memory_data = <<>>
  /\ report = NoReport
  /\ NothingApart

\* a run of the phase controller on a fresh RampUpLoadTester; the client
\* of each phase is not followed, a phase ends with any of Measurements or
\* with an exception
InitPhases ==
  /\ now = 0
  /\ run = "phases"
  /\ max_concurrency = 0 /\ ramp_up_duration = 0 /\ duration = 0
  /\ num_requests = 0 /\ concurrency = 0 /\ multi_turn = FALSE
  /\ messages = <<>>
  /\ metrics = NewMetrics
  /\ results = <<>>
  /\ served = NoResponse
  /\ start_time = 0
  /\ mainpc = "none"
  /\ mainwake = 0
  /\ spawned = 0
  /\ snapshot = NewMetrics
  /\ semaphore = 0
  /\ done = <<>>
  /\ conversation_ids = <<>>
  /\ task = [t \in Tasks |-> NewTask]
  /\ NewController

\* the steps of run_ramp_up_test on the event loop
ControllerNext ==
  \/ StartMonitor
  \/ BeginPhase
  \/ \E m \in Measurements : PhaseReturns(m)
  \/ Rest
  \/ Raises
  \/ Finally
  \/ JoinWaits
  \/ Leave

\* the steps of the thread running monitor_system
MonitorNext ==
  \/ MonitorRecords
  \/ MonitorWakes
  \/ MonitorExits

NextPhases == ControllerNext \/ MonitorNext

SpecPhases == InitPhases /\ [][NextPhases]_vars

NextMain ==
  \/ \E ok \in BOOLEAN : HealthCheck(ok)
  \/ ControllerNext
  \/ MonitorNext
  \/ ExitOfMain

SpecMain == InitMain /\ [][NextMain]_vars

\* The event loop runs the controller while it can take a step: a phase
\* returns or raises, a sleep ends, the timeout of the join runs out.
\* Nothing is assumed of the sampler thread, which may stop for ever
\* anywhere.
FairPhases ==
  /\ InitPhases
  /\ [][NextPhases]_vars
  /\ WF_vars(ControllerNext)

----------------------------------------------------------------------------
(* Properties of the counters *)

Returned == DOMAIN results
Succeeded == {i \in Returned : results[i].success}
Failed == {i \in Returned : ~results[i].success}

\* tasks with a request in flight, and tasks cancelled with one in flight
Flying == {w \in Workers : task[w].pc \in InFlight}
Abandoned == {w \in Workers : task[w].pc = "cancelled" /\ task[w].at \in InFlight}

\* a step that leaves the verdict counters, the samples and the error
\* records as they are
SameVerdicts ==
  /\ metrics'.successful_requests = metrics.successful_requests
  /\ metrics'.failed_requests = metrics.failed_requests
  /\ metrics'.response_times = metrics.response_times
  /\ metrics'.errors = metrics.errors

\* a step in which one request returns its outcome
OneReturns ==
  /\ Len(results') = Len(results) + 1
  /\ SubSeq(results', 1, Len(results)) = results

\* C1: a request that returns an outcome moves exactly one of
\* successful_requests / failed_requests, by one: a success adds one
\* response-time sample and no error record, a failure adds one error record
\* and no sample; no other step touches them.
C1_OneVerdictPerOutcome ==
  [][ /\ OneReturns \/ results' = results
      /\ results' = results => SameVerdicts
      /\ OneReturns =>
           IF results'[Len(results')].success
             THEN /\ metrics'.successful_requests
                       = metrics.successful_requests + 1
                  /\ metrics'.failed_requests = metrics.failed_requests
                  /\ Len(metrics'.response_times)
                       = Len(metrics.response_times) + 1
                  /\ metrics'.errors = metrics.errors
             ELSE /\ metrics'.failed_requests = metrics.failed_requests + 1
                  /\ metrics'.successful_requests
                       = metrics.successful_requests
                  /\ Len(metrics'.errors) = Len(metrics.errors) + 1
                  /\ metrics'.response_times = metrics.response_times ]_vars

C1_Witness ==
  /\ Succeeded # {} /\ Failed # {}
  /\ metrics.successful_requests = 1 /\ metrics.failed_requests = 1

\* C2: successful_requests + failed_requests <= total_requests in every
\* state of a ramp run, with requests in flight and after the cancellation.
C2_VerdictsWithinTotal ==
  metrics.successful_requests + metrics.failed_requests
    <= metrics.total_requests

C2_Witness ==
  /\ mainpc = "returned"
  /\ Abandoned # {}
  /\ Returned # {}
  /\ metrics.successful_requests + metrics.failed_requests
       < metrics.total_requests

\* C7: total_requests grows by one exactly in the step that sends a request,
\* before the reply; so it counts the requests that returned, those in
\* flight and those cancelled in flight.
C7_CountedWhenSent ==
  /\ [](metrics.total_requests
          = Len(results) + Cardinality(Flying) + Cardinality(Abandoned))
  /\ [][ LET sent == {w \in Workers :
                        task[w].pc # "post" /\ task'[w].pc = "post"}
         IN metrics'.total_requests
              = metrics.total_requests + Cardinality(sent) ]_vars

C7_Witness ==
  /\ Flying # {}
  /\ Abandoned # {}
  /\ metrics.total_requests = 2

\* C9: a transport error raised by session.post, response.text() or the
\* stream does not leave send_single_request: the request returns a failed
\* outcome with the error text, one error record is added, the worker goes
\* on to its sleep and no other task is disturbed.
C9_TransportErrorContained ==
  [][ /\ \A w \in Workers : task'[w].pc # "failed"
      /\ \A w \in Workers, e \in TransportErrors :
           TransportError(w, e) =>
             /\ task'[w].pc = "sleep"
             /\ OneReturns
             /\ results'[Len(results')].success = FALSE
             /\ results'[Len(results')].error = e.msg
             /\ metrics'.failed_requests = metrics.failed_requests + 1
             /\ Len(metrics'.errors) = Len(metrics.errors) + 1
             /\ metrics'.errors[Len(metrics'.errors)].error = e.msg
             /\ metrics'.errors[Len(metrics'.errors)].type = e.type
             /\ metrics'.response_times = metrics.response_times
             /\ \A v \in Workers \ {w} : task'[v] = task[v]
             /\ mainpc' = mainpc ]_vars

\* a transport error failed one request and a request that returned after it
\* succeeded
C9_Witness ==
  \E i, j \in Returned :
    /\ i < j
    /\ ~results[i].success
    /\ results[i].error \in {e.msg : e \in TransportErrors}
    /\ results[j].success

\* C10: cancelling the workers changes neither successful_requests nor
\* failed_requests nor the samples nor the error records; a request that is
\* in flight when its task is cancelled never returns an outcome; a finished
\* task is left as it is; the cancellation loop runs to its end.
C10_CancelKeepsVerdicts ==
  [][ /\ (mainpc = "sustain" /\ mainpc' # "sustain") =>
           /\ mainpc' = "returned"
           /\ SameVerdicts
           /\ results' = results
           /\ \A w \in Workers :
                task[w].pc \in {"absent", "done"} => task'[w] = task[w]
      /\ \A w \in Workers :
           /\ (task[w].pc # "cancelled" /\ task'[w].pc = "cancelled") =>
                SameVerdicts /\ results' = results
           /\ task[w].must_cancel => task'[w].pc \in {task[w].pc, "cancelled"}
           /\ task[w].pc = "cancelled" => task'[w] = task[w]
      /\ mainpc = "returned" => SameVerdicts /\ results' = results ]_vars

C10_Witness ==
  /\ mainpc = "returned"
  /\ \E w \in Workers : task[w].pc = "cancelled" /\ task[w].at = "stream"
  /\ \E w \in Workers : task[w].pc = "done"

\* C11: a request is sent only while less than `duration` has elapsed since
\* the start of the run; a request that is in flight at that moment stays in
\* flight and may still return.
C11_NoDispatchAfterDuration ==
  [][ \A w \in Workers :
        (task[w].pc # "post" /\ task'[w].pc = "post") =>
          /\ now - start_time < duration * Second
          /\ task'[w].start_time - start_time < duration * Second ]_vars

\* the duration is over: one worker has left its loop without sending, the
\* request of another, sent in time, is still in flight
C11_Witness ==
  /\ now - start_time >= duration * Second
  /\ \E w \in Workers : task[w].pc = "done"
  /\ \E w \in Workers :
       /\ task[w].pc \in InFlight
       /\ task[w].start_time - start_time < duration * Second

----------------------------------------------------------------------------
(* Properties of a ramp run *)

\* ramp_up_duration / max_concurrency, in time units
RampDelay == (ramp_up_duration * Second) \div max_concurrency

\* C21: with a ramp, the workers are started one at a time, each start
\* followed by a wait of ramp_up_duration / max_concurrency before the
\* next: the k-th worker is started no sooner than k - 1 such delays after
\* the start of the run, and once the ramp is over exactly max_concurrency
\* workers have been started.
C21_EvenRamp ==
  /\ [](spawned <= max_concurrency)
  /\ [](mainpc \in {"sustain", "returned"} => spawned = max_concurrency)
  /\ [](ramp_up_duration > 0 /\ spawned >= 1 =>
          (spawned - 1) * RampDelay <= now - start_time)
  /\ [][ramp_up_duration > 0 /\ spawned' # spawned =>
          /\ spawned' = spawned + 1
          /\ task[spawned'].pc = "absent" /\ task'[spawned'].pc = "created"
          /\ spawned >= 1 => now >= mainwake
          /\ mainwake' = now + RampDelay]_vars

\* the last of several workers is started exactly on time
C21_Witness ==
  /\ ramp_up_duration > 0
  /\ max_concurrency >= 2
  /\ spawned = max_concurrency
  /\ mainpc = "ramp"
  /\ now - start_time = (spawned - 1) * RampDelay
  /\ task[spawned].pc = "created"

\* the step in which run_ramp_up_test cancels its tasks and returns
Cancelling == mainpc # "returned" /\ mainpc' = "returned"

\* every worker that has not finished is cancelled in this step
AllCancelled ==
  \A w \in Workers : task[w].pc \in Awaiting => task'[w].must_cancel

\* C22, as stated: the workers are cancelled when duration -
\* ramp_up_duration has elapsed since the start of the run.
C22_CancelledAfterSustainFromStart ==
  [][Cancelling =>
       /\ now - start_time = (duration - ramp_up_duration) * Second
       /\ AllCancelled]_vars

\* C22, amended: the workers are cancelled, all in one step, when the wait
\* of duration - ramp_up_duration that follows the ramp is over, which on
\* a prompt event loop is max(duration, ramp_up_duration) after the start
\* of the run; no worker is cancelled before.
C22_CancelledAfterRampAndSustain ==
  /\ [][Cancelling =>
          /\ now - start_time
               = (ramp_up_duration + Max(duration - ramp_up_duration, 0))
                   * Second
          /\ now - start_time = Max(duration, ramp_up_duration) * Second
          /\ AllCancelled]_vars
  /\ [](mainpc # "returned" => \A w \in Workers : ~task[w].must_cancel)

\* a run with a ramp and a sustain phase has returned, duration after its
\* start, and a worker it cancelled has been stopped in its request
C22_Witness ==
  /\ mainpc = "returned"
  /\ ramp_up_duration > 0
  /\ duration > ramp_up_duration
  /\ snapshot.end_time - start_time = duration * Second
  /\ \E w \in Workers : task[w].pc = "cancelled" /\ task[w].at \in InFlight

\* C23: in a ramp run every request under way is the one request of a
\* worker that has been started: the requests sent that have neither
\* returned nor been abandoned to a cancellation are as many as the workers
\* waiting for a response, and these are no more than the workers started,
\* which are no more than max_concurrency.
C23_InFlightWithinWorkers ==
  /\ metrics.total_requests - Len(results) - Cardinality(Abandoned)
       = Cardinality(Flying)
  /\ \A w \in Flying : w <= spawned
  /\ Cardinality(Flying) <= spawned
  /\ spawned <= max_concurrency

\* every worker of a run of several has a request in flight
C23_Witness ==
  /\ max_concurrency >= 2
  /\ spawned = max_concurrency
  /\ Cardinality(Flying) = max_concurrency
  /\ metrics.total_requests = max_concurrency

\* C24: a ramp run returns, max(duration, ramp_up_duration) after its
\* start on a prompt event loop, whether or not its requests are ever
\* answered: the run waits for its own sleeps only.
C24_RunReturnsInTime ==
  /\ <>(mainpc = "returned")
  /\ [](mainpc = "returned" =>
          snapshot.end_time - start_time
            = Max(duration, ramp_up_duration) * Second)

\* the run has returned although no request was ever answered: every
\* worker was cancelled while it waited for the response head
C24_Witness ==
  /\ mainpc = "returned"
  /\ max_concurrency >= 2
  /\ results = <<>>
  /\ \A w \in 1..max_concurrency :
       task[w].pc = "cancelled" /\ task[w].at = "post"

\* the workers whose request was in flight when the run cancelled them,
\* whether CancelledError has reached them yet or not
InFlightAtCancel ==
  {w \in Workers :
     \/ task[w].pc \in InFlight /\ task[w].must_cancel
     \/ task[w].pc = "cancelled" /\ task[w].at \in InFlight}

\* C38: in the metrics returned by a ramp run, total_requests -
\* successful_requests - failed_requests is the number of requests that
\* were in flight when the workers were cancelled; they stay in the
\* denominator of success_rate, which is successful_requests /
\* total_requests and so below 100 when a request was abandoned, even if
\* none failed.
C38_AbandonedStayInTotal ==
  mainpc = "returned" =>
    /\ snapshot.total_requests - snapshot.successful_requests
         - snapshot.failed_requests = Cardinality(InFlightAtCancel)
    /\ InFlightAtCancel # {} =>
         /\ success_rate(snapshot) < 100 * 100
         /\ success_rate(snapshot) * snapshot.total_requests
              <= snapshot.successful_requests * 100 * 100
         /\ snapshot.successful_requests * 100 * 100
              < (success_rate(snapshot) + 1) * snapshot.total_requests

\* a run returned with a success, no failure and a request abandoned
C38_Witness ==
  /\ mainpc = "returned"
  /\ InFlightAtCancel # {}
  /\ snapshot.successful_requests >= 1
  /\ snapshot.failed_requests = 0
  /\ success_rate(snapshot) < 100 * 100

----------------------------------------------------------------------------
(* Properties of a fixed-load run *)

\* the requests the gate has admitted and that have not returned
Admitted == {t \in Tasks : task[t].pc \in InFlight}
Waiting == {t \in Tasks : task[t].pc = "acquire"}

\* C12: in a fixed-load run with concurrency >= 1 at most `concurrency`
\* requests are admitted and not yet returned, in every state; the free
\* slots of the gate are the rest.
C12_GateBoundsDispatches ==
  (run = "fixed" /\ concurrency >= 1 /\ mainpc # "start") =>
    /\ Cardinality(Admitted) <= concurrency
    /\ semaphore = concurrency - Cardinality(Admitted)

\* the gate is full and a request waits at it
C12_Witness ==
  /\ concurrency >= 1
  /\ Cardinality(Admitted) = concurrency
  /\ Waiting # {}

\* a step in which the request of task t returns a failure
Fails(t) ==
  /\ task[t].pc \in InFlight /\ task'[t].pc = "done"
  /\ ~done'[Len(done')].success

\* C13: with concurrency >= 1 a fixed-load run returns in the end, with one
\* outcome per request, all num_requests requests having been sent; the
\* step in which a request fails frees its slot, leaves every other task
\* and the collecting loop as they are, and no task is ever cancelled.
C13_RunsToCompletion ==
  /\ (concurrency >= 1) ~>
       ( /\ mainpc = "returned"
         /\ Len(results) = num_requests
         /\ metrics.total_requests = num_requests )
  /\ [][ \A t \in Tasks :
           /\ ~task'[t].must_cancel
           /\ task'[t].pc \notin {"cancelled", "failed"}
           /\ Fails(t) =>
                /\ semaphore' = semaphore + 1
                /\ \A u \in Tasks \ {t} : task'[u] = task[u]
                /\ mainpc' = mainpc /\ results' = results ]_vars

\* the gate has one slot, the run has returned, and a request that failed
\* was followed by one that succeeded
C13_Witness ==
  /\ mainpc = "returned" /\ concurrency = 1 /\ num_requests >= 2
  /\ \E i, j \in DOMAIN results :
       i < j /\ ~results[i].success /\ results[j].success

\* C14: when a fixed-load run on a fresh tester has returned, it has
\* returned num_requests outcomes, total_requests = num_requests,
\* successful_requests + failed_requests = num_requests, len(errors) =
\* failed_requests and, for num_requests >= 1, success_rate =
\* successful_requests / num_requests * 100.
C14_FixedRunTotals ==
  (run = "fixed" /\ mainpc = "returned") =>
    /\ Len(results) = num_requests
    /\ snapshot.total_requests = num_requests
    /\ snapshot.successful_requests + snapshot.failed_requests = num_requests
    /\ snapshot.successful_requests
         = Cardinality({i \in DOMAIN results : results[i].success})
    /\ Len(snapshot.errors) = snapshot.failed_requests
    /\ num_requests >= 1 =>
         success_rate(snapshot)
           = (snapshot.successful_requests * 100 * 100) \div num_requests

\* one success and one failure out of two: 50.0 with one error record
C14_Witness ==
  /\ run = "fixed" /\ mainpc = "returned" /\ num_requests = 2
  /\ snapshot.successful_requests = 1 /\ snapshot.failed_requests = 1
  /\ success_rate(snapshot) = 5000
  /\ Len(snapshot.errors) = 1

\* C15: the request with index i is sent with the message at position
\* i mod len(pool) of the pool (position i of the default pool, for i < 10),
\* whatever the order in which the requests are admitted; a failure is
\* recorded with that message.
C15_MessageByIndex ==
  [][ \A t \in Tasks :
        (run = "fixed" /\ task[t].pc # "post" /\ task'[t].pc = "post") =>
          LET i == t - 1
              message == task'[t].request.message
          IN IF messages = <<>>
               THEN message = DefaultMessages[i + 1]
               ELSE message = IF i % 2 = 0 THEN "A" ELSE "B" ]_vars

\* request 2 is under way with the first message of a pool of two, while
\* request 1 has not been admitted
C15_Witness ==
  /\ run = "fixed" /\ messages = <<"A", "B">>
  /\ task[3].pc \in InFlight /\ task[3].request.message = "A"
  /\ task[2].pc \in {"created", "acquire"}

\* the outcomes in the order in which the requests returned: those
\* collected, then those still queued
InOrderOfReturn == results \o done

\* the requests that return in this step
Returning == {t \in Tasks : task[t].pc \in InFlight /\ task'[t].pc = "done"}

\* C25: the list of a fixed-load run is in the order of return: the outcome
\* of a request that returns goes behind those of all requests that
\* returned before it, whatever its index, and nothing else changes the
\* order.
C25_CompletionOrder ==
  [][/\ Cardinality(Returning) <= 1
     /\ Returning = {} => InOrderOfReturn' = InOrderOfReturn
     /\ Returning # {} =>
          /\ Len(InOrderOfReturn') = Len(InOrderOfReturn) + 1
          /\ SubSeq(InOrderOfReturn', 1, Len(InOrderOfReturn))
               = InOrderOfReturn
          /\ InOrderOfReturn'[Len(InOrderOfReturn')].success
               = (metrics'.successful_requests
                    > metrics.successful_requests)]_vars

\* send_request(1) has returned and its outcome is the first of the list,
\* while send_request(0) still waits for its response
C25_Witness ==
  /\ task[1].pc \in InFlight
  /\ task[2].pc = "done"
  /\ Len(results) = 1
  /\ done = <<>>

\* C39: in every state that another coroutine can see while requests go
\* through send_single_request on a fresh TestMetrics, there are as many
\* response-time samples as successful_requests and as many error records
\* as failed_requests.
C39_SamplesMatchCounters ==
  /\ Len(metrics.response_times) = metrics.successful_requests
  /\ Len(metrics.errors) = metrics.failed_requests

\* a request is in flight after one has succeeded and one has failed
C39_Witness ==
  /\ \E t \in Tasks : task[t].pc \in InFlight
  /\ metrics.successful_requests = 1
  /\ metrics.failed_requests = 1
  /\ Len(metrics.response_times) = 1
  /\ Len(metrics.errors) = 1

\* C40: in a fixed-load run every request is sent without a conversation
\* id, with multi_turn or without: the id noted for request i once it has
\* returned is read by no request, so that what is sent is the message of
\* the index and None, whatever multi_turn is.
C40_NoConversationIdSent ==
  [][\A t \in Tasks :
       (run = "fixed" /\ task'[t].pc = "post" /\ task[t].pc # "post") =>
         /\ task'[t].request = RequestData(MessageOf(t - 1), None)
         /\ conversation_ids' = conversation_ids]_vars

\* with multi_turn an id has been noted for a request that succeeded, and
\* a later request is in flight without one
C40_Witness ==
  /\ run = "fixed"
  /\ multi_turn
  /\ \E i \in DOMAIN conversation_ids : conversation_ids[i] # None
  /\ \E t \in Tasks :
       /\ task[t].pc = "post"
       /\ t - 1 \notin DOMAIN conversation_ids
       /\ \E i \in DOMAIN conversation_ids : i < t - 1
       /\ task[t].request.conversation_id = None

----------------------------------------------------------------------------
(* Properties of TestMetrics *)

\* the samples added so far
Samples == {metrics.response_times[k] : k \in DOMAIN metrics.response_times}

Least(S) == CHOOSE x \in S : \A y \in S : x <= y
Greatest(S) == CHOOSE x \in S : \A y \in S : x >= y

RECURSIVE SumOfFirst(_)
SumOfFirst(k) ==
  IF k = 0 THEN 0 ELSE SumOfFirst(k - 1) + metrics.response_times[k]

SumOfSamples == SumOfFirst(Len(metrics.response_times))

\* C26: after any calls of add_response_time, min_response_time is the
\* least sample, max_response_time the greatest, total_response_time their
\* sum and average_response_time their mean; without samples the average
\* is 0.
C26_SummaryOfSamples ==
  IF metrics.response_times = <<>>
    THEN average_response_time(metrics) = 0
    ELSE /\ metrics.min_response_time = Least(Samples)
         /\ metrics.max_response_time = Greatest(Samples)
         /\ metrics.total_response_time = SumOfSamples
         /\ average_response_time(metrics)
              = (SumOfSamples * 100) \div Len(metrics.response_times)

\* the same, for samples none of which is negative
NonNegativeSummary ==
  (\A x \in Samples : x >= 0) => C26_SummaryOfSamples

\* C27: success_rate is 0 while no request has been sent; afterwards it is
\* successful_requests / total_requests * 100, between 0 and 100 (here in
\* hundredths of a percent).
C27_SuccessRateInRange ==
  /\ metrics.total_requests = 0 => success_rate(metrics) = 0
  /\ metrics.total_requests > 0 =>
       success_rate(metrics)
         = (metrics.successful_requests * 100 * 100)
             \div metrics.total_requests
  /\ success_rate(metrics) >= 0
  /\ success_rate(metrics) <= 100 * 100

\* of three requests sent two have succeeded and one is still under way:
\* the rate is 66.66
C27_Witness ==
  /\ metrics.total_requests = 3
  /\ metrics.successful_requests = 2
  /\ metrics.failed_requests = 0
  /\ success_rate(metrics) = 6666

\* the clock reading t is a time: not None
IsTime(t) == t # NoTime

\* C28: throughput is 0 when start_time or end_time is None or when
\* end_time <= start_time, and total_requests / (end_time - start_time)
\* otherwise (here in hundredths).
C28_ThroughputOverInterval ==
  IF /\ IsTime(metrics.start_time) /\ IsTime(metrics.end_time)
     /\ metrics.end_time > metrics.start_time
    THEN throughput(metrics)
           = (metrics.total_requests * 100)
               \div (metrics.end_time - metrics.start_time)
    ELSE throughput(metrics) = 0

\* the same, for a start_time and an end_time that are not 0
ThroughputAwayFromZero ==
  metrics.start_time # 0 /\ metrics.end_time # 0
    => C28_ThroughputOverInterval

----------------------------------------------------------------------------
(* Properties of the phase controller *)

\* the phases that returned a result
Judged == DOMAIN warned

\* C16: the controller runs the configured phases one after the other, from
\* the first on, and appends the result of each in that order: a phase that
\* returns is followed by the rest and the next phase, or by the end of the
\* loop when it was the last, whether or not it raised a warning; and a run
\* that returns has run them all.
C16_EveryPhaseInOrder ==
  /\ [](/\ Len(self_results) = Len(warned)
        /\ Len(self_results) \in {phase - 1, phase} \cap Nat
        /\ \A k \in DOMAIN self_results :
             self_results[k].concurrency = test_phases[k].concurrency
        /\ cpc = "returned" => Len(self_results) = Len(test_phases))
  /\ [][/\ phase' \in {phase, phase + 1}
        /\ phase' = phase + 1 => Len(self_results) = phase /\ cpc' = "phase"
        /\ Len(self_results') = Len(self_results) + 1
             => /\ cpc = "phase" /\ Len(self_results') = phase
                /\ cpc' = IF phase = Len(test_phases) THEN "finally"
                          ELSE "rest"
        /\ cpc = "rest" /\ cpc' \notin {"rest", "finally"}
             => cpc' = "loop" /\ phase < Len(test_phases)]_vars

\* every phase raised a warning, and the run returned the results of all
C16_Witness ==
  /\ cpc = "returned"
  /\ Len(self_results) = Len(test_phases)
  /\ Len(test_phases) >= 2
  /\ \A k \in Judged : warned[k]

\* the thresholds a phase can cross
CpuIdleLow(k) == self_results[k].end_cpu_idle < 30
SuccessLow(k) == self_results[k].success_rate < 95 * 100
MemoryHigh(k) == self_results[k].end_memory_percent > 90
ResponseTimeDoubled(k) ==
  /\ k > 1
  /\ self_results[k].avg_response_time
       > 2 * self_results[k - 1].avg_response_time

\* phase k lies exactly on every threshold
AtThresholds(k) ==
  /\ self_results[k].end_cpu_idle = 30
  /\ self_results[k].success_rate = 95 * 100
  /\ self_results[k].end_memory_percent = 90
  /\ k > 1
  /\ self_results[k].avg_response_time
       = 2 * self_results[k - 1].avg_response_time

\* C17: should_stop_test warns of a phase exactly when its CPU idle is
\* below 30, or its success rate below 95, or its average response time
\* above twice that of the phase before it (when there is one), or its
\* memory use above 90; a phase exactly on the thresholds is not warned of.
C17_VerdictByThresholds ==
  \A k \in Judged :
    /\ warned[k] <=> \/ CpuIdleLow(k)
                     \/ SuccessLow(k)
                     \/ ResponseTimeDoubled(k)
                     \/ MemoryHigh(k)
    /\ AtThresholds(k) => ~warned[k]

\* a first phase warned of for its CPU idle alone, and a second phase on
\* every threshold, not warned of
C17_Witness ==
  /\ Len(warned) >= 2
  /\ warned[1] /\ CpuIdleLow(1) /\ ~SuccessLow(1) /\ ~MemoryHigh(1)
  /\ AtThresholds(2) /\ ~warned[2]

\* C18: in the report of a run that returned, the knees are exactly the
\* phases should_stop_test warned of.
C18_KneesAreWarnings ==
  cpc = "returned" =>
    performance_knees(self_results) = {k \in Judged : warned[k]}

\* the loop over the phases is under way
InSequence == cpc \in {"loop", "phase", "rest"}

\* the call of run_ramp_up_test is over
Over == cpc \in {"returned", "raised"}

\* C19: while the phases run the sampler thread has been started, has not
\* been told to stop and has not ended; it is told to stop only once the
\* loop is over, after the last phase or because an exception left it; and
\* when the run is over, either way, self._monitoring is False.
C19_SamplerSpansPhases ==
  /\ [](InSequence =>
          monitoring /\ monitor_thread \notin {"unstarted", "exited"})
  /\ [](Over => ~monitoring)
  /\ [][monitoring /\ ~monitoring' =>
          /\ cpc = "finally"
          /\ pending \/ Len(self_results) = Len(test_phases)]_vars

\* the second phase raised after the sampler had recorded; the run is over
\* and the sampler was told to stop
C19_Witness ==
  /\ cpc = "raised"
  /\ phase = 2 /\ Len(self_results) = 1
  /\ Len(cpu_data) >= 1
  /\ ~monitoring

\* C20: once the loop over the phases is over, run_ramp_up_test ends, with
\* its results or with the exception that left the loop, whatever the
\* sampler thread does: the join waits two seconds at most.
C20_RunEndsWithoutSampler ==
  /\ (cpc = "finally") ~> Over
  /\ [](cpc = "join" => join_left \in 0..2)
  /\ [][cpc = "join" => join_left' <= join_left]_vars

\* the run returned the results of all phases after the whole timeout of
\* the join, with the sampler thread still alive
C20_Witness ==
  /\ cpc = "returned"
  /\ Len(self_results) = Len(test_phases)
  /\ join_left = 0
  /\ monitor_thread # "exited"

----------------------------------------------------------------------------
(* Properties of the report *)

\* generate_report has been called on a list that is not empty
Reported == report # NoReport /\ self_results # <<>>

\* the rate r, in hundredths of a percent, is that of the counters: the
\* quotient (total - failed) / total, cut to hundredths
RateOfCounters(r, total, failed) ==
  /\ total > 0
  /\ r * total <= (total - failed) * 100 * 100
  /\ (total - failed) * 100 * 100 < (r + 1) * total

\* C29: for every list of phase results that is not empty, whatever the
\* counters, the report is completed and its overall success rate is
\* (sum of total_requests - sum of failed_requests) / sum of total_requests,
\* as a percentage.
C29_ReportCompletes ==
  Reported =>
    /\ report.kind = "built"
    /\ RateOfCounters(report.overall_success_rate,
                      SumOver(self_results, "total_requests"),
                      SumOver(self_results, "failed_requests"))

\* the same, for lists in which some phase sent a request
RateWhenSomeRequest ==
  SumOver(self_results, "total_requests") > 0 => C29_ReportCompletes

\* the concurrencies of the phases whose success rate is 95 or more
StableLevels ==
  {self_results[k].concurrency :
     k \in {i \in DOMAIN self_results :
              self_results[i].success_rate >= 95 * 100}}

\* C30: the stable ceiling of the report is the highest concurrency among
\* the phases whose success rate is 95 or more; when no phase reaches 95 the
\* report says that no level is stable and names no concurrency.
C30_StableCeiling ==
  Reported =>
    /\ report.kind = "built"
    /\ IF StableLevels = {} THEN report.stable = 0
       ELSE /\ report.stable \in StableLevels
            /\ \A c \in StableLevels : c <= report.stable

\* the same, for the reports that were built
CeilingWhenBuilt ==
  report.kind = "built" => C30_StableCeiling

----------------------------------------------------------------------------
(* Properties of the conversation history *)

\* the messages are the last ones added, in the order they were added in
\* (with one conversation, the message added last is total_messages)
MostRecent(history) ==
  \A i \in 1..Len(history) :
    history[i] = total_messages - Len(history) + i

\* C35: whatever max_history_length >= 1 the manager was made with, after
\* any number of add_message calls a conversation holds at most
\* max_history_length messages, and they are the most recently added ones
\* in the order of their insertion.
C35_HistoryWithinLimit ==
  \A c \in DOMAIN conversations :
    /\ Len(conversations[c].messages) <= max_history_length
    /\ Len(conversations[c].messages) <= total_messages
    /\ total_messages >= 1 => conversations[c].messages # <<>>
    /\ MostRecent(conversations[c].messages)

\* the same, for the managers whose max_history_length is 2 or more
HistoryWithinLongerLimit ==
  max_history_length >= 2 => C35_HistoryWithinLimit

\* with max_history_length = 5, ten adds leave the last five
TenAddsLeaveFive ==
  (max_history_length = 5 /\ total_messages = 10) =>
    conversations[1].messages = <<6, 7, 8, 9, 10>>

----------------------------------------------------------------------------
(* Properties of the chat service *)

\* xs is the beginning of ys
IsPrefix(xs, ys) ==
  /\ Len(xs) <= Len(ys)
  /\ \A i \in 1..Len(xs) : xs[i] = ys[i]

\* the streams open on a conversation: registered, and their finally
\* clause still to come
OpenOn(c) ==
  {s \in Streams :
     /\ streams[s].conversation = c
     /\ streams[s].pc \in {"connected", "message", "completed", "error"}}

\* the count kept for a conversation, 0 when it has no entry
CountOf(connections, c) ==
  IF c \in DOMAIN connections THEN connections[c] ELSE 0

\* C36: an entry of the active connections exists only with a count of 1
\* or more; register adds one to the count of its id, unregister takes one
\* off and removes the entry that reaches zero, and changes nothing for an
\* id without entry; with concurrent streams the count of a conversation is
\* the number of streams open on it, so that it is back at its previous
\* value when a stream has ended, normally or by an error.
C36_ConnectionsCounted ==
  /\ \A c \in DOMAIN active_connections : active_connections[c] >= 1
  /\ \A c \in 1..(Len(conversations) + 1) :
       /\ CountOf(active_connections, c) = Cardinality(OpenOn(c))
       /\ CountOf(register_connection(active_connections, c), c)
            = CountOf(active_connections, c) + 1
       /\ CountOf(unregister_connection(active_connections, c), c)
            = Max(0, CountOf(active_connections, c) - 1)
       /\ \A d \in DOMAIN unregister_connection(active_connections, c) :
            unregister_connection(active_connections, c)[d] >= 1
       /\ c \notin DOMAIN active_connections =>
            unregister_connection(active_connections, c)
              = active_connections

\* two streams are open on one conversation, one of them after an error
C36_Witness ==
  /\ streams[1].pc = "message"
  /\ streams[2].pc = "error"
  /\ streams[1].conversation = 1
  /\ streams[2].conversation = 1
  /\ active_connections[1] = 2

\* the events of a stream are in order
InOrder(events) ==
  /\ \A i \in 1..Len(events) :
       /\ events[i].event = "connected" => i = 1
       /\ events[i].event = "message" =>
            /\ events[1].event = "connected"
            /\ \A j \in 1..i : events[j].event # "completed"
       /\ events[i].event = "completed" =>
            /\ i > 1
            /\ events[i - 1].event = "message"
            /\ events[i - 1].type = "complete"
            /\ events[i - 1].content # ""
       /\ events[i].event = "error" => i = Len(events)
  /\ ~ \E i, j \in 1..Len(events) :
         events[i].event = "completed" /\ events[j].event = "error"

\* C37: in every chat stream a connected event, if there is one, is the
\* first event; every message event comes after connected and before
\* completed, and the message before completed carries a complete frame
\* whose content is not empty; an error event is the last event, and no
\* stream has both completed and error; a request that names an unknown
\* conversation id gets an error event and no connected event.
C37_EventsInOrder ==
  [][\A s \in Streams :
       streams'[s] # streams[s] =>
         /\ InOrder(streams'[s].events)
         /\ (/\ streams[s].pc = "idle"
             /\ streams'[s].request # NoConversation
             /\ streams'[s].request \notin DOMAIN conversations) =>
              /\ Len(streams'[s].events) = 1
              /\ streams'[s].events[1].event = "error"
         /\ streams[s].pc # "idle" =>
              /\ streams'[s].request = streams[s].request
              /\ IsPrefix(streams[s].events, streams'[s].events)]_vars

\* one stream has run to its completed event, and another was refused
\* for its unknown conversation id
C37_Witness ==
  /\ streams[1].pc = "closed"
  /\ Len(streams[1].events) = 8
  /\ streams[1].events[7].type = "complete"
  /\ streams[1].events[8].event = "completed"
  /\ streams[2].request = 2
  /\ streams[2].events = <<ErrorEvent>>

----------------------------------------------------------------------------
(* Properties of the exit status *)

\* main returned after ten failed health checks
NotStarted == cpc = "exited" /\ monitor_thread = "unstarted"

\* main returned after a run that no exception left
Executed == cpc = "exited" /\ monitor_thread # "unstarted" /\ ~pending

\* C34: the exit status tells whether the run could be started and nothing
\* else: it is 0 for a run that was executed, whatever its phases measured,
\* and it is another for a run that was not started because the health
\* check failed, of which no phase is run and no report written.
C34_StatusTellsStarted ==
  /\ Executed => exit_status = 0
  /\ NotStarted =>
       /\ exit_status # 0
       /\ phase = 0 /\ self_results = <<>> /\ report = NoReport

\* what main does: the status is 0 in the one case and in the other
StatusIsZero ==
  /\ Executed => exit_status = 0
  /\ NotStarted =>
       /\ exit_status = 0
       /\ phase = 0 /\ self_results = <<>> /\ report = NoReport

----------------------------------------------------------------------------
(* Properties of the resource series *)

\* C33: only record_stats changes the retained series: a step that changes
\* cpu_data or memory_data is the sampler's record, which appends one and
\* the same sample to both and is no step of the controller, whose phases
\* (with their get_system_stats before and after) leave both as they are;
\* so the two series have the same length and the same timestamp at every
\* index.
C33_OnlyRecordAppends ==
  [][/\ (cpu_data' # cpu_data \/ memory_data' # memory_data) =>
          /\ monitor_thread = "check" /\ monitor_thread' = "sleep"
          /\ UNCHANGED <<cpc, phase, self_results, previous_result>>
          /\ Len(cpu_data') = Len(cpu_data) + 1
          /\ Len(memory_data') = Len(memory_data) + 1
          /\ IsPrefix(cpu_data, cpu_data')
          /\ IsPrefix(memory_data, memory_data')
          /\ cpu_data'[Len(cpu_data')] = memory_data'[Len(memory_data')]
     /\ Len(cpu_data') = Len(memory_data')
     /\ \A i \in 1..Len(cpu_data') :
          cpu_data'[i].timestamp = memory_data'[i].timestamp]_vars

\* two phases have taken their snapshots and two samples were recorded
C33_Witness ==
  /\ Len(self_results) = 2
  /\ Len(cpu_data) = 2
  /\ Len(memory_data) = 2
  /\ cpu_data[1].timestamp # cpu_data[2].timestamp
  /\ memory_data[2] = cpu_data[2]

----------------------------------------------------------------------------
(* Properties of the error list *)

\* C31: the error list accumulates without loss: every failed dispatch adds
\* one record at the end and leaves the records before it as they were, so
\* the list holds one record per failure however many there are; the phase
\* result, when it is built, keeps the first min(5, n) of the n records and
\* leaves the list as it is.
C31_ErrorsAccumulate ==
  [][/\ IsPrefix(metrics.errors, metrics'.errors)
     /\ Len(metrics'.errors) - Len(metrics.errors)
          = metrics'.failed_requests - metrics.failed_requests
     /\ Len(metrics'.errors) = metrics'.failed_requests
     /\ self_results' # <<>> =>
          /\ Len(self_results'[1].errors) = Min(5, Len(metrics.errors))
          /\ IsPrefix(self_results'[1].errors, metrics.errors)
          /\ self_results # <<>> \/ metrics' = metrics]_vars

C31_Witness ==
  /\ run = "errors"
  /\ Len(metrics.errors) = 6
  /\ metrics.failed_requests = 6
  /\ self_results # <<>>
  /\ Len(self_results[1].errors) = 5
  /\ self_results[1].failed_requests = 6

\* the counters of a result or of an aggregator
Counters(r) ==
  <<r.total_requests, r.successful_requests, r.failed_requests>>

\* C32: the result of a phase counts only the requests dispatched during
\* that phase: a phase begins on an aggregator of its own whose counters are
\* zero, its result carries the counters of that aggregator, and a step of
\* a later phase changes no result recorded before.
C32_PhaseOwnsItsCounters ==
  [][/\ phase' # phase =>
          /\ Counters(metrics') = <<0, 0, 0>>
          /\ metrics'.errors = <<>>
     /\ IsPrefix(self_results, self_results')
     /\ Len(self_results') # Len(self_results) =>
          /\ Len(self_results') = Len(self_results) + 1
          /\ Len(self_results') = phase
          /\ Counters(self_results'[phase]) = Counters(metrics)]_vars

C32_Witness ==
  /\ run = "own"
  /\ Len(self_results) = 2
  /\ Counters(self_results[1]) = <<2, 1, 1>>
  /\ Counters(self_results[2]) = <<1, 1, 0>>

----------------------------------------------------------------------------
(* Properties of the classification of one response *)

\* the request that returned last, the one "served" describes
Last == {i \in Returned : i = Len(results)}

\* it returned after an HTTP 200 response whose stream was read without a
\* transport error
Streamed == served.status = 200 /\ ~served.broken

\* A frame in the convention the parser reads: a line
\* data: ... data='<JSON object>' whose content, if any, is a string.
WellFormed(line) ==
  /\ line.utf8 /\ line.prefix /\ line.marker /\ line.closed
  /\ line.json = "object"
  /\ line.content.kind # "nonstr"

\* A line of that convention whose payload does not decode to such an object,
\* or bytes that do not decode at all.
Malformed(line) ==
  \/ ~line.utf8
  \/ line.prefix /\ line.marker /\ ~WellFormed(line)

NotMalformed(line) == ~Malformed(line)

\* a well-formed frame that has both a type and a string content
FullFrame(line) ==
  /\ WellFormed(line)
  /\ line.type # NoType
  /\ line.content.kind = "str"

\* a complete / completed frame with non-empty content
Terminal(line) ==
  /\ WellFormed(line)
  /\ line.type \in {"complete", "completed"}
  /\ line.content.kind = "str" /\ line.content.val # Empty

Has(lines, P(_)) == \E k \in DOMAIN lines : P(lines[k])
All(lines, P(_)) == \A k \in DOMAIN lines : P(lines[k])

\* the k-th failed outcome and the k-th error record belong together
ErrorRecordOf(i) ==
  metrics.errors[Cardinality({j \in Failed : j <= i})]

OneErrorRecordEach ==
  /\ Len(metrics.errors) = Cardinality(Failed)
  /\ \A i \in Failed : ErrorRecordOf(i).error = results[i].error

OneSampleEach == Len(metrics.response_times) = Cardinality(Succeeded)

\* C3: an HTTP 200 response is classified failed, with one error record,
\* when its stream yields no well-formed frame, and then event_count is 0,
\* or yields frames but no terminal frame with non-empty content.
C3_IncompleteStreamFails ==
  /\ OneErrorRecordEach
  /\ \A i \in Last :
       Streamed =>
         /\ ~Has(served.lines, WellFormed) =>
              /\ ~results[i].success
              /\ "event_count" \in DOMAIN results[i]
              /\ results[i].event_count = 0
         /\ ~Has(served.lines, Terminal) => ~results[i].success

\* C4: an HTTP 200 response whose stream holds a terminal frame with
\* non-empty content, among any other well-formed frames, is classified
\* successful with one timing sample.
C4_TerminalFrameSucceeds ==
  /\ OneSampleEach
  /\ \A i \in Last :
       ( /\ Streamed
         /\ All(served.lines, FullFrame)
         /\ Has(served.lines, Terminal) )
       => results[i].success

\* C5: a malformed data line is skipped on its own: the outcome has the
\* verdict and the event_count of the same stream without its malformed
\* lines.
C5_MalformedLineSkipped ==
  \A i \in Last :
    (Streamed /\ Has(served.lines, Malformed)) =>
      LET clean == SelectSeq(served.lines, NotMalformed)
          ref == RunStream(NoLocals, clean).loc
      IN /\ results[i].success = ~Incomplete(ref)
         /\ "event_count" \in DOMAIN results[i]
         /\ results[i].event_count = ref.event_count

IsCompact(line) ==
  /\ line.utf8 /\ line.prefix /\ ~line.marker /\ line.json = "object"

CompactComplete(line) ==
  /\ IsCompact(line) /\ line.type = "complete"
  /\ line.content.kind = "str" /\ line.content.val # Empty

\* C6: an HTTP 200 response whose lines all have the compact form
\* data: <JSON object> and include a complete object with non-empty content
\* gives success with event_count = the number of lines and
\* message_length > 0.
C6_CompactStreamSucceeds ==
  \A i \in Last :
    ( /\ Streamed
      /\ All(served.lines, IsCompact)
      /\ Has(served.lines, CompactComplete) )
    => /\ results[i].success
       /\ results[i].event_count = Len(served.lines)
       /\ results[i].message_length > 0

Non2xx(status) == status < 200 \/ status > 299

\* C8 as claimed: a response whose status is not 2xx is classified failed
\* without any stream being read, with one error record whose text carries
\* the status code and the response body, and no response-time sample.
C8_Non2xxCarriesBody ==
  /\ OneErrorRecordEach
  /\ OneSampleEach
  /\ \A i \in Last :
       (served.status # 0 /\ Non2xx(served.status)) =>
         /\ ~results[i].success
         /\ served.lines = <<>>
         /\ results[i].error
              = <<"HTTP", served.status, served.text>>

\* C8 amended: ... the text carries the status code and the response body
\* when the body was read; when reading the body raised a transport error,
\* the text is that error's.
C8_Non2xxFails ==
  /\ OneErrorRecordEach
  /\ OneSampleEach
  /\ \A i \in Last :
       (served.status # 0 /\ Non2xx(served.status)) =>
         /\ ~results[i].success
         /\ served.lines = <<>>
         /\ IF served.broken
              THEN \E e \in TransportErrors : results[i].error = e.msg
              ELSE results[i].error
                     = <<"HTTP", served.status, served.text>>

C8_Witness ==
  \E i \in Last :
    /\ served.status = 404
    /\ results[i].error = <<"HTTP", 404, "Server Error">>
    /\ metrics.failed_requests = 1
    /\ metrics.response_times = <<>>

====
